---- MODULE Spec2Model ----
(***************************************************************************)
(* Model of the deterministic visualization-inference engine of app/agent.py *)
(* (analyze_visualization, extract_visualization_from_text) and of the     *)
(* query_database tool that wraps it.                                      *)
(*                                                                         *)
(* Text is modelled as Python models it: a string is a sequence of Unicode *)
(* code points, so that str.lower(), the "in" substring test, str.strip(), *)
(* list.sort() on labels and str(rows) are computed, not assumed.          *)
(***************************************************************************)
EXTENDS Integers, Sequences, FiniteSets, TLC

VARIABLES
    raw_data,   \* argument raw_data: the text, a sequence of lines
    question,   \* argument question: a string
    pc,         \* position in analyze_visualization / extract_visualization_from_text
    rows,       \* local "rows" of analyze_visualization
    columns,    \* local "columns" of analyze_visualization
    fb_rows,    \* local "rows" of extract_visualization_from_text
    result,     \* the returned dictionary (NoResult until the function returns)
    exc,        \* the exception that escaped the call ("none" if none did)
    agent,      \* what the SQL agent does when query_database invokes it
    qpc,        \* position in query_database ("idle": the analysis is called directly)
    response,   \* the object query_database serializes
    wire,       \* the string query_database returns
    fpc,        \* position in a call of one of the helper functions ("idle": none is called)
    in_text,    \* argument "text" of sanitize_text_for_json
    out_text,   \* the string sanitize_text_for_json returns
    in_obj,     \* argument "obj" of sanitize_dict_for_json
    out_obj,    \* the value sanitize_dict_for_json returns
    in_data,    \* argument "data" of generate_conclusion
    out_conclusion, \* what generate_conclusion returns, or the exception it raises
    clock,      \* time.time(), counted in milliseconds
    vp_pc,      \* position in analyze_visualization of app_utils/viz_parser.py
    start_time, \* local "start_time" of that function
    vp_rows,    \* local "rows" of that function
    vp_columns, \* local "columns" of that function
    vp_results, \* what its calls returned so far, in call order
    frames,     \* the calls running concurrently: one frame of locals per call
    sql_agent,  \* the module-level _sql_agent ("None" until get_sql_agent creates it)
    hf_now,     \* time.time() as the Hugging Face tools read it, in seconds
    cache,      \* the entries of each lru_cache of app/hf_tools.py, least recent first
    requests,   \* the requests each cached function sent upstream, in order
    last_call,  \* the last call of a Hugging Face tool and what it returned
    hf_plan,    \* the kind of call sequence the Hugging Face tools receive
    hf_steps,   \* the calls and clock advances made so far
    singleton,  \* the module-level _hf_client and _sql_agent as the getters see them
    constructed,      \* the instances constructed so far for each of the two names
    getters     \* the calls of get_hf_client / get_sql_agent, one per thread

vars == <<raw_data, question, pc, rows, columns, fb_rows, result, exc,
          agent, qpc, response, wire,
          fpc, in_text, out_text, in_obj, out_obj, in_data, out_conclusion,
          clock, vp_pc, start_time, vp_rows, vp_columns, vp_results,
          frames, sql_agent,
          hf_now, cache, requests, last_call, hf_plan, hf_steps, singleton, constructed, getters>>

\* the variables of query_database
qvars == <<agent, qpc, response, wire>>

\* the variables of the calls of the helper functions
fvars == <<fpc, in_text, out_text, in_obj, out_obj, in_data, out_conclusion>>

\* the variables of the calls of app_utils/viz_parser.py
vpvars == <<clock, vp_pc, start_time, vp_rows, vp_columns, vp_results>>

\* the variables of the concurrent calls
tvars == <<frames, sql_agent>>

\* the variables of the Hugging Face tools and of the lazy getters
hvars == <<hf_now, cache, requests, last_call, hf_plan, hf_steps, singleton, constructed, getters>>

\* the variables of analyze_visualization
avars == <<raw_data, question, pc, rows, columns, fb_rows, result, exc>>

----------------------------------------------------------------------------
(* Bounds of the model.                                                    *)

\* longest text made of freely chosen catalogue lines
MaxLines == 3
\* longest generated record list: one more than the temporal display cap
MaxRecords == 37
\* fractional digits the model's floats carry (further digits are cut)
FracDigits == 2
\* longest numeric literal drawn freely from the characters 1 5 . ,
MaxLitLen == 4
\* longest string handed to sanitize_text_for_json
MaxTextLen == 5
\* longest list handed to sanitize_dict_for_json
MaxItems == 2
\* longest row list handed to generate_conclusion
MaxDataRows == 40

----------------------------------------------------------------------------
(* Characters and strings (sequences of code points).                      *)

\* the code points the patterns and parsers of agent.py name
CH == [SPACE |-> 32, DOLLAR |-> 36, QUOTE |-> 39, STAR |-> 42, COMMA |-> 44,
       MINUS |-> 45, DOT |-> 46, SLASH |-> 47, ZERO |-> 48, COLON |-> 58, NL |-> 10]

IsDigit(c) == c \in 48..57

\* str.isspace for the characters a line can hold: space, \t \n \v \f \r
IsSpace(c) == c \in {32, 9, 10, 11, 12, 13}

\* str.lower() on one character: ASCII and Latin-1 capitals
LowerCh(c) ==
    IF c \in 65..90 THEN c + 32
    ELSE IF c \in 192..222 /\ c # 215 THEN c + 32
    ELSE c

Lower(s) == [i \in 1..Len(s) |-> LowerCh(s[i])]

\* Python "needle in hay"
Contains(hay, needle) ==
    \E i \in 0..(Len(hay) - Len(needle)) :
        \A j \in 1..Len(needle) : hay[i + j] = needle[j]

\* str.count(c) for a single character
RECURSIVE Count(_, _)
Count(s, c) ==
    IF s = <<>> THEN 0
    ELSE (IF Head(s) = c THEN 1 ELSE 0) + Count(Tail(s), c)

HasCh(s, c) == \E i \in 1..Len(s) : s[i] = c

\* str.replace(c, '')
Remove(s, c) == SelectSeq(s, LAMBDA x : x # c)

\* str.replace(a, b) for single characters
Replace(s, a, b) == [i \in 1..Len(s) |-> IF s[i] = a THEN b ELSE s[i]]

\* str.strip()
RECURSIVE LStrip(_)
LStrip(s) == IF s # <<>> /\ IsSpace(Head(s)) THEN LStrip(Tail(s)) ELSE s

RECURSIVE RStrip(_)
RStrip(s) ==
    IF s # <<>> /\ IsSpace(s[Len(s)]) THEN RStrip(SubSeq(s, 1, Len(s) - 1)) ELSE s

Strip(s) == RStrip(LStrip(s))

\* s[:n]
Take(s, n) == SubSeq(s, 1, IF Len(s) < n THEN Len(s) ELSE n)

\* Python's < on str: lexicographic by code point
RECURSIVE StrLess(_, _)
StrLess(a, b) ==
    IF b = <<>> THEN FALSE
    ELSE IF a = <<>> THEN TRUE
    ELSE IF Head(a) # Head(b) THEN Head(a) < Head(b)
    ELSE StrLess(Tail(a), Tail(b))

StrLeq(a, b) == a = b \/ StrLess(a, b)

RECURSIVE Pow10(_)
Pow10(n) == IF n = 0 THEN 1 ELSE 10 * Pow10(n - 1)

\* str(n) for a natural number
RECURSIVE IntStr(_)
IntStr(n) == IF n < 10 THEN <<CH.ZERO + n>> ELSE IntStr(n \div 10) \o <<CH.ZERO + (n % 10)>>

\* the value of a run of decimal digits
RECURSIVE DigitsVal(_)
DigitsVal(s) ==
    IF s = <<>> THEN 0
    ELSE 10 * DigitsVal(SubSeq(s, 1, Len(s) - 1)) + (s[Len(s)] - CH.ZERO)

AllDigits(s) == \A i \in 1..Len(s) : IsDigit(s[i])

----------------------------------------------------------------------------
(* Numbers.  A Python number is [c, f]: c is the value in units of         *)
(* 10^-FracDigits and f tells a float from an int.                          *)

Scale == Pow10(FracDigits)

PyInt(n) == [c |-> n * Scale, f |-> FALSE]

\* float('inf'): the float above every finite number
InfC == 2147483647
Inf == [c |-> InfC, f |-> TRUE]
IsInf(x) == x.f /\ x.c = InfC

\* outcome of an expression that may raise
Ok(v) == [err |-> "none", v |-> v]
Raise(e) == [err |-> e, v |-> PyInt(0)]

\* the digits of 2^1024 - 2^970, the least integer that float() rounds to inf
DblOverflow ==
    <<49, 55, 57, 55, 54, 57, 51, 49, 51, 52, 56, 54, 50, 51, 49, 53, 56, 48, 55, 57, 51, 55, 50, 56,
     57, 55, 49, 52, 48, 53, 51, 48, 51, 52, 49, 53, 48, 55, 57, 57, 51, 52, 49, 51, 50, 55, 49, 48,
     48, 51, 55, 56, 50, 54, 57, 51, 54, 49, 55, 51, 55, 55, 56, 57, 56, 48, 52, 52, 52, 57, 54, 56,
     50, 57, 50, 55, 54, 52, 55, 53, 48, 57, 52, 54, 54, 52, 57, 48, 49, 55, 57, 55, 55, 53, 56, 55,
     50, 48, 55, 48, 57, 54, 51, 51, 48, 50, 56, 54, 52, 49, 54, 54, 57, 50, 56, 56, 55, 57, 49, 48,
     57, 52, 54, 53, 53, 53, 53, 52, 55, 56, 53, 49, 57, 52, 48, 52, 48, 50, 54, 51, 48, 54, 53, 55,
     52, 56, 56, 54, 55, 49, 53, 48, 53, 56, 50, 48, 54, 56, 49, 57, 48, 56, 57, 48, 50, 48, 48, 48,
     55, 48, 56, 51, 56, 51, 54, 55, 54, 50, 55, 51, 56, 53, 52, 56, 52, 53, 56, 49, 55, 55, 49, 49,
     53, 51, 49, 55, 54, 52, 52, 55, 53, 55, 51, 48, 50, 55, 48, 48, 54, 57, 56, 53, 53, 53, 55, 49,
     51, 54, 54, 57, 53, 57, 54, 50, 50, 56, 52, 50, 57, 49, 52, 56, 49, 57, 56, 54, 48, 56, 51, 52,
     57, 51, 54, 52, 55, 53, 50, 57, 50, 55, 49, 57, 48, 55, 52, 49, 54, 56, 52, 52, 52, 51, 54, 53,
     53, 49, 48, 55, 48, 52, 51, 52, 50, 55, 49, 49, 53, 53, 57, 54, 57, 57, 53, 48, 56, 48, 57, 51,
     48, 52, 50, 56, 56, 48, 49, 55, 55, 57, 48, 52, 49, 55, 52, 52, 57, 55, 55, 57, 50>>

\* leading zeros dropped
RECURSIVE Significant(_)
Significant(s) == IF s # <<>> /\ Head(s) = CH.ZERO THEN Significant(Tail(s)) ELSE s

\* the integer part is too large for a double
Overflows(whole) ==
    LET sig == Significant(whole)
    IN  \/ Len(sig) > Len(DblOverflow)
        \/ Len(sig) = Len(DblOverflow) /\ StrLeq(DblOverflow, sig)

\* float(s): digits with at most one '.', at least one digit; anything else
\* raises ValueError; a value beyond the largest double is inf
PyFloat(s) ==
    LET dot == CHOOSE i \in 1..(Len(s) + 1) :
                   (i = Len(s) + 1 \/ s[i] = CH.DOT) /\ \A j \in 1..(i - 1) : s[j] # CH.DOT
        whole == SubSeq(s, 1, dot - 1)
        frac == SubSeq(s, dot + 1, Len(s))
        fpad == Take(frac \o [i \in 1..FracDigits |-> CH.ZERO], FracDigits)
    IN  IF AllDigits(whole) /\ AllDigits(frac) /\ Len(whole) + Len(frac) > 0
        THEN IF Overflows(whole) THEN Ok(Inf)
             ELSE Ok([c |-> DigitsVal(whole) * Scale + DigitsVal(fpad), f |-> TRUE])
        ELSE Raise("ValueError")

\* int(s) for a str: a non-empty run of digits, anything else raises ValueError
PyIntOfStr(s) ==
    IF s # <<>> /\ AllDigits(s) THEN Ok(PyInt(DigitsVal(s))) ELSE Raise("ValueError")

\* int(x) for a float: truncation; int(inf) raises OverflowError
PyTrunc(r) ==
    IF r.err # "none" THEN r
    ELSE IF IsInf(r.v) THEN Raise("OverflowError")
    ELSE Ok(PyInt(r.v.c \div Scale))

\* str(x) for a number: ints print their digits, floats print the shortest
\* fraction with at least one digit
RECURSIVE DropZeros(_)
DropZeros(s) ==
    IF Len(s) > 1 /\ s[Len(s)] = CH.ZERO THEN DropZeros(SubSeq(s, 1, Len(s) - 1)) ELSE s

NumStr(x) ==
    IF ~x.f THEN IntStr(x.c \div Scale)
    ELSE IF IsInf(x) THEN <<105, 110, 102>>                       \* "inf"
    ELSE LET fr == IntStr(x.c % Scale)
             padded == [i \in 1..(FracDigits - Len(fr)) |-> CH.ZERO] \o fr
         IN  IntStr(x.c \div Scale) \o <<CH.DOT>> \o DropZeros(padded)

----------------------------------------------------------------------------
(* The text.  raw_data is a sequence of lines joined by "\n".  A line is a *)
(* record [kind, label, value]; Render gives its characters.  The kinds    *)
(* are the line layouts the five regular expressions of agent.py tell      *)
(* apart:                                                                  *)
(*   bullet    * **label**: $value                                         *)
(*   grouped   Mes: label - Total: $value                                  *)
(*   record    Mes: label, facturas: 17, Total: $value                     *)
(*   simple    label: $value                                               *)
(*   trailing  label: $value COP                                           *)
(*   month     Mes: label                                                  *)
(*   total     Total: $value                                               *)
(*   noise     label        (free text on which no pattern matches)        *)

TXT == [bulletOpen  |-> <<42, 32, 42, 42>>,                      \* "* **"
        bulletClose |-> <<42, 42, 58, 32, 36>>,                  \* "**: $"
        mes         |-> <<77, 101, 115, 58, 32>>,                \* "Mes: "
        dashTotal   |-> <<32, 45, 32, 84, 111, 116, 97, 108, 58, 32, 36>>, \* " - Total: $"
        facturas    |-> <<44, 32, 102, 97, 99, 116, 117, 114, 97, 115, 58, 32, 49, 55,
                          44, 32, 84, 111, 116, 97, 108, 58, 32, 36>>, \* ", facturas: 17, Total: $"
        sep         |-> <<58, 32, 36>>,                          \* ": $"
        cop         |-> <<32, 67, 79, 80>>,                      \* " COP"
        totalLabel  |-> <<84, 111, 116, 97, 108>>]               \* "Total"

Line(k, l, v) == [kind |-> k, label |-> l, value |-> v]

Render(ln) ==
    CASE ln.kind = "bullet"   -> TXT.bulletOpen \o ln.label \o TXT.bulletClose \o ln.value
      [] ln.kind = "grouped"  -> TXT.mes \o ln.label \o TXT.dashTotal \o ln.value
      [] ln.kind = "record"   -> TXT.mes \o ln.label \o TXT.facturas \o ln.value
      [] ln.kind = "simple"   -> ln.label \o TXT.sep \o ln.value
      [] ln.kind = "trailing" -> ln.label \o TXT.sep \o ln.value \o TXT.cop
      [] ln.kind = "month"    -> TXT.mes \o ln.label
      [] ln.kind = "total"    -> TXT.totalLabel \o TXT.sep \o ln.value
      [] OTHER                -> ln.label

\* the Python string raw_data: the lines joined by "\n"
RECURSIVE TextStr(_)
TextStr(text) ==
    IF text = <<>> THEN <<>>
    ELSE IF Len(text) = 1 THEN Render(text[1])
    ELSE Render(text[1]) \o <<CH.NL>> \o TextStr(Tail(text))

HasDigit(s) == \E i \in 1..Len(s) : IsDigit(s[i])

\* [\d.,]
IsNumCh(c) == IsDigit(c) \/ c = CH.DOT \/ c = CH.COMMA

\* a numeric literal as every pattern captures it: [\d.,]+
IsNumLit(s) == s # <<>> /\ \A i \in 1..Len(s) : IsNumCh(s[i])

\* \d{4}-\d{2}
IsIsoMonth(s) ==
    /\ Len(s) = 7
    /\ AllDigits(SubSeq(s, 1, 4)) /\ s[5] = CH.MINUS /\ AllDigits(SubSeq(s, 6, 7))

\* \d{4}/\d{2}
IsSlashMonth(s) ==
    /\ Len(s) = 7
    /\ AllDigits(SubSeq(s, 1, 4)) /\ s[5] = CH.SLASH /\ AllDigits(SubSeq(s, 6, 7))

\* [A-Za-z] and the accented letters the simple patterns list
IsAsciiLetter(c) == c \in 65..90 \/ c \in 97..122
IsLowerAccent(c) == c \in {225, 233, 237, 243, 250, 241}
IsUpperAccent(c) == c \in {193, 201, 205, 211, 218, 209}

\* [A-Za-z...0-9\s\.\-] of simple_pattern in analyze_visualization
IsSimpleLabelCh(c) ==
    \/ IsAsciiLetter(c) \/ IsLowerAccent(c) \/ IsUpperAccent(c)
    \/ IsDigit(c) \/ IsSpace(c) \/ c = CH.DOT \/ c = CH.MINUS

\* [A-Za-z...0-9\s\-] of simple_pattern in extract_visualization_from_text
IsFbLabelCh(c) ==
    \/ IsAsciiLetter(c) \/ IsLowerAccent(c)
    \/ IsDigit(c) \/ IsSpace(c) \/ c = CH.MINUS

\* the label and the value a "label: $value" layout offers to the simple
\* patterns; a total line reads "Total: $value"
LabelOf(ln) == IF ln.kind = "total" THEN TXT.totalLabel ELSE ln.label

----------------------------------------------------------------------------
(* re.findall / re.match of the five patterns, as sequences of             *)
(* <<label, value>> candidates in text order.                              *)

Cand(l, v) == <<l, v>>

\* bullet_pattern  \*\s*\*\*([^*]+)\*\*[:\s]+\$?([\d.,]+)
BulletMatches(text) ==
    LET hit(ln) == /\ ln.kind = "bullet"
                   /\ ln.label # <<>> /\ ~HasCh(ln.label, CH.STAR)
                   /\ IsNumLit(ln.value)
        kept == SelectSeq(text, hit)
    IN  [i \in 1..Len(kept) |-> Cand(kept[i].label, kept[i].value)]

\* month_value_pattern
\*   (?:Mes|Periodo|Fecha)[:\s]+([\d]{4}-[\d]{2}|[\w]+\s+\d{4})[^\d]*(?:Total|Monto|Valor)[:\s]+\$?([\d.,]+)
\* A grouped line matches by itself.  A month line matches together with the
\* next total line when no digit stands between them ([^\d]* crosses line
\* ends); the search resumes after the total line.
RECURSIVE TemporalFrom(_, _)
TemporalFrom(text, i) ==
    IF i > Len(text) THEN <<>>
    ELSE LET ln == text[i]
             digitLines == {j \in (i + 1)..Len(text) : HasDigit(Render(text[j]))}
             nxt == IF digitLines = {} THEN 0
                    ELSE CHOOSE j \in digitLines : \A k \in digitLines : j <= k
         IN  IF ln.kind = "grouped" /\ IsIsoMonth(ln.label) /\ IsNumLit(ln.value)
             THEN <<Cand(ln.label, ln.value)>> \o TemporalFrom(text, i + 1)
             ELSE IF /\ ln.kind = "month" /\ IsIsoMonth(ln.label)
                     /\ nxt # 0 /\ text[nxt].kind = "total" /\ IsNumLit(text[nxt].value)
             THEN <<Cand(ln.label, text[nxt].value)>> \o TemporalFrom(text, nxt + 1)
             ELSE TemporalFrom(text, i + 1)

TemporalMatches(text) == TemporalFrom(text, 1)

\* simple_pattern of analyze_visualization, matched on each stripped line
\*   ^[...]?\s*([A-Za-z...0-9\s\.\-]+)[:\s]+\$?([\d.,]{4,})\s*$
SimpleMatches(text) ==
    LET hit(ln) == /\ ln.kind \in {"simple", "total"}
                   /\ LabelOf(ln) # <<>>
                   /\ \A i \in 1..Len(LabelOf(ln)) : IsSimpleLabelCh(LabelOf(ln)[i])
                   /\ IsNumLit(ln.value) /\ Len(ln.value) >= 4
        kept == SelectSeq(text, hit)
    IN  [i \in 1..Len(kept) |-> Cand(LabelOf(kept[i]), kept[i].value)]

\* month_pattern  (?:Mes|Periodo|Fecha)[:\s]+(\d{4}-\d{2}|\d{4}/\d{2}|[A-Za-z...]+\s+\d{4})
FbMonths(text) ==
    LET hit(ln) == /\ ln.kind \in {"grouped", "record", "month"}
                   /\ (IsIsoMonth(ln.label) \/ IsSlashMonth(ln.label))
        kept == SelectSeq(text, hit)
    IN  [i \in 1..Len(kept) |-> kept[i].label]

\* value_pattern  (?:Total de compras|Total facturado|Monto|Total)[:\s]+\$?([\d.,]+)
FbValues(text) ==
    LET hit(ln) == ln.kind \in {"grouped", "record", "total"} /\ IsNumLit(ln.value)
        kept == SelectSeq(text, hit)
    IN  [i \in 1..Len(kept) |-> kept[i].value]

\* simple_pattern of extract_visualization_from_text, matched on each stripped line
\*   ^[...]?\s*([A-Za-z...0-9\s\-]+)[:\s]+\$?([\d.,]{6,})
FbSimpleMatches(text) ==
    LET hit(ln) == /\ ln.kind \in {"simple", "trailing", "total"}
                   /\ LabelOf(ln) # <<>>
                   /\ \A i \in 1..Len(LabelOf(ln)) : IsFbLabelCh(LabelOf(ln)[i])
                   /\ IsNumLit(ln.value) /\ Len(ln.value) >= 6
        kept == SelectSeq(text, hit)
    IN  [i \in 1..Len(kept) |-> Cand(LabelOf(kept[i]), kept[i].value)]

----------------------------------------------------------------------------
(* Program constants.                                                      *)

\* len(raw_data.strip()) < 30
MinDataLen == 30
\* len(rows) < 2
MinRows == 2
\* num_val > 1000 of the simple patterns and of the fallback bullet pattern
SmallValue == 1000
\* label.strip()[:50]
MaxLabelLen == 50
\* max_display of a line chart
LineMaxDisplay == 36
\* max_display of a pie or bar chart
MaxDisplay == 12
\* num_items <= 6
PieMaxItems == 6
\* rows[:12] of the fallback
FbMaxDisplay == 12
\* len(rows) > 10 of the fallback
FbTopThreshold == 10

----------------------------------------------------------------------------
(* Value parsing, one operator per site of the code.                       *)

\* the except clause without ValueError
CaughtOverflowOnly == {"OverflowError"}

\* except (ValueError, OverflowError): continue
CaughtErrors == {"ValueError", "OverflowError"}

\* the three-way rule dropped: every '.' and ',' is stripped
ParseBulletStripAll(value) ==
    LET clean_val == Remove(Remove(value, CH.DOT), CH.COMMA)
    IN  IF clean_val = <<>> THEN Ok(PyInt(0)) ELSE PyTrunc(PyFloat(clean_val))

\* bullet values of analyze_visualization
ParseBulletValue(value) ==
    LET clean_val ==
            IF HasCh(value, CH.DOT) /\ ~HasCh(value, CH.COMMA) /\ Count(value, CH.DOT) > 1
            THEN Remove(value, CH.DOT)
            ELSE IF HasCh(value, CH.COMMA) /\ HasCh(value, CH.DOT)
            THEN Remove(value, CH.COMMA)
            ELSE Remove(Remove(value, CH.DOT), CH.COMMA)
    IN  IF clean_val = <<>> THEN Ok(PyInt(0)) ELSE PyTrunc(PyFloat(clean_val))

\* temporal and simple values of analyze_visualization
ParsePlainValue(value) ==
    LET clean_val == Remove(Remove(value, CH.DOT), CH.COMMA)
    IN  IF clean_val = <<>> THEN Ok(PyInt(0)) ELSE PyTrunc(PyFloat(clean_val))

\* month values of extract_visualization_from_text
ParseFbMonthValue(value) ==
    LET replaced == Replace(Remove(value, CH.DOT), CH.COMMA, CH.DOT)
        clean_val == IF replaced # <<>> /\ replaced[Len(replaced)] = CH.DOT
                     THEN SubSeq(replaced, 1, Len(replaced) - 1)
                     ELSE replaced
    IN  IF HasCh(clean_val, CH.DOT) THEN PyFloat(clean_val) ELSE PyIntOfStr(clean_val)

\* bullet values of extract_visualization_from_text
ParseFbBulletValue(value) ==
    LET clean_val ==
            IF HasCh(value, CH.COMMA) /\ HasCh(value, CH.DOT)
            THEN Remove(value, CH.COMMA)
            ELSE IF HasCh(value, CH.DOT) /\ Count(value, CH.DOT) > 1
            THEN Remove(value, CH.DOT)
            ELSE Remove(Remove(value, CH.COMMA), CH.DOT)
    IN  IF clean_val = <<>> THEN Ok(PyInt(0)) ELSE PyTrunc(PyFloat(clean_val))

\* simple values of extract_visualization_from_text
ParseFbSimpleValue(value) ==
    LET clean_val == Remove(Remove(value, CH.DOT), CH.COMMA)
    IN  IF clean_val = <<>> THEN Ok(PyInt(0)) ELSE PyIntOfStr(clean_val)

\* _parse_number of app_utils/viz_parser.py
parse_number(value) ==
    LET clean_val ==
            IF HasCh(value, CH.COMMA) /\ HasCh(value, CH.DOT)
            THEN Remove(value, CH.COMMA)
            ELSE IF HasCh(value, CH.DOT) /\ Count(value, CH.DOT) > 1
            THEN Remove(value, CH.DOT)
            ELSE Remove(Remove(value, CH.COMMA), CH.DOT)
    IN  PyFloat(clean_val)

----------------------------------------------------------------------------
(* The for loops over the candidates: try: parse, append if large enough;  *)
(* except (ValueError, OverflowError): continue.                           *)

Row(l, v) == <<l, v>>

\* the conversion each loop applies to the literal it matched
ParseWith(parse, value) ==
    CASE parse = "bullet" -> ParseBulletValue(value)
      [] parse = "plain" -> ParsePlainValue(value)
      [] parse = "fb_month" -> ParseFbMonthValue(value)
      [] parse = "fb_bullet" -> ParseFbBulletValue(value)
      [] parse = "fb_simple" -> ParseFbSimpleValue(value)
      [] parse = "parse_number" -> parse_number(value)

StripLabel(l) == Strip(l)
SimpleLabel(l) == Take(Strip(l), MaxLabelLen)
RawLabel(l) == l

\* the label each loop stores with the value
LabelWith(how, l) ==
    CASE how = "strip" -> StripLabel(l)
      [] how = "simple" -> SimpleLabel(l)
      [] how = "raw" -> RawLabel(l)

\* the candidates with their parse outcome
Parsed(cands, parse) ==
    [i \in 1..Len(cands) |-> [label |-> cands[i][1], r |-> ParseWith(parse, cands[i][2])]]

\* the first candidate whose exception the except clause does not catch
\* (0 if there is none): the loop, and the call, end there
FirstUncaught(parsed) ==
    LET bad == {i \in 1..Len(parsed) :
                   parsed[i].r.err # "none" /\ parsed[i].r.err \notin CaughtErrors}
    IN  IF bad = {} THEN 0 ELSE CHOOSE i \in bad : \A j \in bad : i <= j

EscapedError(parsed) ==
    IF FirstUncaught(parsed) = 0 THEN "none" ELSE parsed[FirstUncaught(parsed)].r.err
\* a loop that tests num_val >= min: a value equal to the limit is kept
AppendedNotBelow(parsed, min, how) ==
    LET upto == IF FirstUncaught(parsed) = 0 THEN Len(parsed) ELSE FirstUncaught(parsed) - 1
        ok(p) == p.r.err = "none" /\ p.r.v.c >= min * Scale
        kept == SelectSeq(SubSeq(parsed, 1, upto), ok)
    IN  [i \in 1..Len(kept) |-> Row(LabelWith(how, kept[i].label), kept[i].r.v)]

\* the rows the loop appends: parsed without error and num_val > min
Appended(parsed, min, how) ==
    LET upto == IF FirstUncaught(parsed) = 0 THEN Len(parsed) ELSE FirstUncaught(parsed) - 1
        ok(p) == p.r.err = "none" /\ p.r.v.c > min * Scale
        kept == SelectSeq(SubSeq(parsed, 1, upto), ok)
    IN  [i \in 1..Len(kept) |-> Row(LabelWith(how, kept[i].label), kept[i].r.v)]

\* zip(months, values)
Zip(months, values) ==
    [i \in 1..(IF Len(months) < Len(values) THEN Len(months) ELSE Len(values)) |->
        Cand(months[i], values[i])]

----------------------------------------------------------------------------
(* Sorting: list.sort is stable.                                           *)

RECURSIVE InsertSorted(_, _, _)
\* r goes behind every element whose key does not come after its own
InsertSorted(sorted, r, byLabel) ==
    IF sorted = <<>> THEN <<r>>
    ELSE LET e == Head(sorted)
             rFirst == IF byLabel THEN StrLess(r[1], e[1]) ELSE r[2].c > e[2].c
         IN  IF rFirst THEN <<r>> \o sorted
             ELSE <<e>> \o InsertSorted(Tail(sorted), r, byLabel)

RECURSIVE SortRows(_, _)
SortRows(rs, byLabel) ==
    IF rs = <<>> THEN <<>>
    ELSE InsertSorted(SortRows(SubSeq(rs, 1, Len(rs) - 1), byLabel), rs[Len(rs)], byLabel)

\* rows.sort(key=lambda x: x[0])
SortByLabel(rs) == SortRows(rs, TRUE)
\* reverse=True forgotten: ascending by value
SortByValueAsc(rs) ==
    LET d == SortRows(rs, FALSE) IN [i \in 1..Len(d) |-> d[Len(d) + 1 - i]]

\* rows.sort(key=lambda x: x[1], reverse=True)
SortByValueDesc(rs) == SortRows(rs, FALSE)

----------------------------------------------------------------------------
(* Temporal detection.                                                     *)

\* '-01' .. '-12'
MonthSuffix(m) == <<CH.MINUS, CH.ZERO + (m \div 10), CH.ZERO + (m % 10)>>

KW == [mes       |-> <<109, 101, 115>>,
       mensual   |-> <<109, 101, 110, 115, 117, 97, 108>>,
       anio      |-> <<97, 241, 111>>,                               \* "año"
       anual     |-> <<97, 110, 117, 97, 108>>,
       fecha     |-> <<102, 101, 99, 104, 97>>,
       periodo   |-> <<112, 101, 114, 237, 111, 100, 111>>,         \* "período"
       tendencia |-> <<116, 101, 110, 100, 101, 110, 99, 105, 97>>,
       y2024     |-> <<50, 48, 50, 52>>,
       y2025     |-> <<50, 48, 50, 53>>,
       y2026     |-> <<50, 48, 50, 54>>]

\* temporal_keywords of analyze_visualization
temporal_keywords ==
    <<KW.mes, KW.mensual, KW.anio, KW.anual, KW.fecha, KW.periodo, KW.tendencia,
      KW.y2024, KW.y2025, KW.y2026>> \o [m \in 1..12 |-> MonthSuffix(m)]

\* temporal_keywords of extract_visualization_from_text
fb_temporal_keywords ==
    <<KW.mes, KW.anio, KW.fecha, KW.y2024, KW.y2025, KW.y2026>>
    \o [m \in 1..3 |-> MonthSuffix(m)]

\* str(rows): "[['label', 12], ['label', 3.5]]"
RECURSIVE StrRowsFrom(_, _)
StrRowsFrom(rs, i) ==
    IF i > Len(rs) THEN <<>>
    ELSE (IF i > 1 THEN <<CH.COMMA, CH.SPACE>> ELSE <<>>)
         \o <<91, CH.QUOTE>> \o rs[i][1] \o <<CH.QUOTE, CH.COMMA, CH.SPACE>>
         \o NumStr(rs[i][2]) \o <<93>>
         \o StrRowsFrom(rs, i + 1)

StrRows(rs) == <<91>> \o StrRowsFrom(rs, 1) \o <<93>>

\* any(kw in question.lower() or kw in str(rows).lower() for kw in keywords)
IsTemporal(keywords, q, rs) ==
    LET ql == Lower(q)
        rl == Lower(StrRows(rs))
    IN  \E k \in 1..Len(keywords) : Contains(ql, keywords[k]) \/ Contains(rl, keywords[k])

----------------------------------------------------------------------------
(* The returned dictionaries.                                              *)

NoResult == [pending |-> TRUE]

\* the reason left out of the non-visualizable result
NotVisualizableBare(reason) == [visualizable |-> FALSE, type |-> "none"]

\* {"visualizable": False, "type": "none", "reason": ...}
NotVisualizable(reason) == [visualizable |-> FALSE, type |-> "none", reason |-> reason]

\* str.title() of the column names
TitleCase(col) ==
    CASE col = "categoria" -> "Categoria"
      [] col = "periodo"   -> "Periodo"
      [] col = "nombre"    -> "Nombre"
      [] OTHER             -> col
\* a rule without the pie: line if temporal, bar otherwise
ChartTypeNoPie(is_temporal, num_items) ==
    IF is_temporal THEN "line" ELSE "bar"

\* STEP 2 and STEP 3 of analyze_visualization: chart type, sort, cap, config
ChartType(is_temporal, num_items) ==
    IF is_temporal THEN "line" ELSE IF num_items <= PieMaxItems THEN "pie" ELSE "bar"

SortedFor(chart_type, rs) ==
    CASE chart_type = "line" -> SortByLabel(rs)
      [] chart_type = "bar"  -> SortByValueDesc(rs)
      [] OTHER               -> rs

MaxDisplayFor(chart_type) == IF chart_type = "line" THEN LineMaxDisplay ELSE MaxDisplay

viz_config(rs, cols, q) ==
    LET is_temporal == IsTemporal(temporal_keywords, q, rs)
        num_items == Len(rs)
        chart_type == ChartType(is_temporal, num_items)
        sorted == SortedFor(chart_type, rs)
        max_display == MaxDisplayFor(chart_type)
        is_top == num_items > max_display
        display_rows == Take(sorted, max_display)
    IN  [visualizable |-> TRUE,
         type         |-> chart_type,
         title        |-> IF is_temporal THEN "Tendencia por Período"
                          ELSE (IF is_top THEN "Top 10 " ELSE "")
                               \o (IF cols # <<>> THEN TitleCase(cols[1]) ELSE "Datos"),
         xAxis        |-> IF cols # <<>> THEN cols[1] ELSE "categoria",
         yAxis        |-> IF Len(cols) > 1 THEN cols[2] ELSE "valor",
         xAxisLabel   |-> IF is_temporal THEN "Período" ELSE "Categoría",
         yAxisLabel   |-> "Total ($)",
         series       |-> <<[name |-> "Total",
                             field |-> IF Len(cols) > 1 THEN cols[2] ELSE "valor"]>>,
         legend       |-> [show |-> FALSE],
         data         |-> [columns |-> IF cols # <<>> THEN cols ELSE <<"categoria", "valor">>,
                           rows |-> display_rows],
         isTop10      |-> is_top,
         totalRecords |-> num_items,
         method       |-> "fast_deterministic"]

\* the tail of extract_visualization_from_text
FbChartType(is_temporal) == IF is_temporal THEN "line" ELSE "bar"

fallback_viz(rs, q) ==
    LET is_temporal == IsTemporal(fb_temporal_keywords, q, rs)
        chart_type == FbChartType(is_temporal)
        sorted == SortedFor(chart_type, rs)
        top_rows == Take(sorted, FbMaxDisplay)
    IN  [visualizable |-> TRUE,
         type         |-> chart_type,
         title        |-> "Total por Período (" \o ToString(Len(top_rows)) \o " registros)",
         xAxis        |-> "periodo",
         yAxis        |-> "total",
         xAxisLabel   |-> IF is_temporal THEN "Período" ELSE "Categoría",
         yAxisLabel   |-> "Total ($)",
         series       |-> <<[name |-> "Total", field |-> "total"]>>,
         legend       |-> [show |-> FALSE],
         data         |-> [columns |-> <<"periodo", "total">>, rows |-> top_rows],
         isTop10      |-> Len(rs) > FbTopThreshold,
         totalRecords |-> Len(rs),
         summary      |-> "Fallback: " \o ToString(Len(top_rows)) \o " de "
                          \o ToString(Len(rs)) \o " registros extraídos",
         fallback     |-> TRUE]

----------------------------------------------------------------------------
(* analyze_visualization, one action per block of the function.  pc names  *)
(* the block about to run; the "if len(rows) < 2" that guards a block is   *)
(* evaluated when the block before it ends.                                *)

\* the threshold slipped to 1: a single row is taken for a data set
NeedMoreBelowOne(rs) == Len(rs) < 1

\* the threshold tested with <=: a strategy runs although 2 rows are there
NeedMoreOffByOne(rs) == Len(rs) <= MinRows

\* if len(rows) < 2
NeedMore(rs) == Len(rs) < MinRows

\* a loop ends the call when an exception escapes it
Step(parsed, next) ==
    IF EscapedError(parsed) # "none"
    THEN pc' = "raised" /\ exc' = EscapedError(parsed)
    ELSE pc' = next /\ exc' = exc

\* if len(raw_data.strip()) < 30: return "Insufficient data"
QuickSkip ==
    /\ pc = "call"
    /\ IF Len(Strip(TextStr(raw_data))) < MinDataLen
       THEN result' = NotVisualizable("Insufficient data") /\ pc' = "return"
       ELSE result' = result /\ pc' = "bullet"
    /\ UNCHANGED <<raw_data, question, rows, columns, fb_rows, exc, qvars, fvars, vpvars, tvars, hvars>>

\* Pattern 1: markdown bullet list
BulletStrategy ==
    /\ pc = "bullet"
    /\ LET bullet_matches == BulletMatches(raw_data)
           parsed == Parsed(bullet_matches, "bullet")
           new == rows \o Appended(parsed, 0, "strip")
       IN  /\ rows' = new
           /\ columns' = IF bullet_matches # <<>> THEN <<"categoria", "valor">> ELSE columns
           /\ Step(parsed, IF NeedMore(new) THEN "temporal" ELSE "build")
    /\ UNCHANGED <<raw_data, question, fb_rows, result, qvars, fvars, vpvars, tvars, hvars>>

\* Pattern 2: temporal data
TemporalStrategy ==
    /\ pc = "temporal"
    /\ LET temporal_matches == TemporalMatches(raw_data)
           parsed == Parsed(temporal_matches, "plain")
           new == rows \o Appended(parsed, 0, "strip")
       IN  /\ rows' = new
           /\ columns' = IF temporal_matches # <<>> THEN <<"periodo", "total">> ELSE columns
           /\ Step(parsed, IF NeedMore(new) THEN "simple" ELSE "build")
    /\ UNCHANGED <<raw_data, question, fb_rows, result, qvars, fvars, vpvars, tvars, hvars>>

\* Pattern 3: simple "Label: Value" lines
SimpleStrategy ==
    /\ pc = "simple"
    /\ LET parsed == Parsed(SimpleMatches(raw_data), "plain")
           added == Appended(parsed, SmallValue, "simple")
           new == rows \o added
       IN  /\ rows' = new
           /\ columns' = IF added # <<>> /\ columns = <<>> THEN <<"nombre", "valor">>
                         ELSE columns
           /\ Step(parsed, IF NeedMore(new) THEN "fb_grouped" ELSE "build")
    /\ UNCHANGED <<raw_data, question, fb_rows, result, qvars, fvars, vpvars, tvars, hvars>>

\* STEP 2 and 3: classify, sort in place, cap, return viz_config
BuildConfig ==
    /\ pc = "build"
    /\ LET cfg == viz_config(rows, columns, question)
       IN  /\ result' = cfg
           /\ rows' = SortedFor(cfg.type, rows)
    /\ pc' = "return"
    /\ UNCHANGED <<raw_data, question, columns, fb_rows, exc, qvars, fvars, vpvars, tvars, hvars>>

\* extract_visualization_from_text, Strategy 1: month-value pairs
FbGroupedStrategy ==
    /\ pc = "fb_grouped"
    /\ LET months == FbMonths(raw_data)
           values == FbValues(raw_data)
           pairs == IF months # <<>> /\ values # <<>> /\ Len(months) = Len(values)
                    THEN Zip(months, values) ELSE <<>>
           parsed == Parsed(pairs, "fb_month")
           new == Appended(parsed, 0, "raw")
       IN  /\ fb_rows' = new
           /\ Step(parsed, IF NeedMore(new) THEN "fb_bullet" ELSE "fb_build")
    /\ UNCHANGED <<raw_data, question, rows, columns, result, qvars, fvars, vpvars, tvars, hvars>>

\* Strategy 2: markdown bullet format
FbBulletStrategy ==
    /\ pc = "fb_bullet"
    /\ LET parsed == Parsed(BulletMatches(raw_data), "fb_bullet")
           new == fb_rows \o Appended(parsed, SmallValue, "strip")
       IN  /\ fb_rows' = new
           /\ Step(parsed, IF NeedMore(new) THEN "fb_simple" ELSE "fb_build")
    /\ UNCHANGED <<raw_data, question, rows, columns, result, qvars, fvars, vpvars, tvars, hvars>>

\* Strategy 3: simple line format, and the return of the non-visualizable
\* result when the rows are still fewer than 2
FbSimpleStrategy ==
    /\ pc = "fb_simple"
    /\ LET parsed == Parsed(FbSimpleMatches(raw_data), "fb_simple")
           new == fb_rows \o Appended(parsed, SmallValue, "strip")
       IN  /\ fb_rows' = new
           /\ Step(parsed, IF NeedMore(new) THEN "return" ELSE "fb_build")
           /\ result' = IF EscapedError(parsed) = "none" /\ NeedMore(new)
                        THEN NotVisualizable("Could not extract sufficient data points")
                        ELSE result
    /\ UNCHANGED <<raw_data, question, rows, columns, qvars, fvars, vpvars, tvars, hvars>>

\* the tail of extract_visualization_from_text: sort, cap, return
FbBuildConfig ==
    /\ pc = "fb_build"
    /\ LET cfg == fallback_viz(fb_rows, question)
       IN  /\ result' = cfg
           /\ fb_rows' = SortedFor(cfg.type, fb_rows)
    /\ pc' = "return"
    /\ UNCHANGED <<raw_data, question, rows, columns, exc, qvars, fvars, vpvars, tvars, hvars>>

----------------------------------------------------------------------------
(* query_database: the string literals of the function, as code points.    *)

LIT == [
      data |-> <<100, 97, 116, 97>>,
      visualizable |-> <<118, 105, 115, 117, 97, 108, 105, 122, 97, 98, 108, 101>>,
      conclusion |-> <<99, 111, 110, 99, 108, 117, 115, 105, 111, 110>>,
      visualization |-> <<118, 105, 115, 117, 97, 108, 105, 122, 97, 116, 105, 111, 110>>,
      text |-> <<116, 101, 120, 116>>,
      thinking |-> <<116, 104, 105, 110, 107, 105, 110, 103>>,
      isTop10 |-> <<105, 115, 84, 111, 112, 49, 48>>,
      totalRecords |-> <<116, 111, 116, 97, 108, 82, 101, 99, 111, 114, 100, 115>>,
      type |-> <<116, 121, 112, 101>>,
      title |-> <<116, 105, 116, 108, 101>>,
      xAxis |-> <<120, 65, 120, 105, 115>>,
      yAxis |-> <<121, 65, 120, 105, 115>>,
      xAxisLabel |-> <<120, 65, 120, 105, 115, 76, 97, 98, 101, 108>>,
      yAxisLabel |-> <<121, 65, 120, 105, 115, 76, 97, 98, 101, 108>>,
      series |-> <<115, 101, 114, 105, 101, 115>>,
      legend |-> <<108, 101, 103, 101, 110, 100>>,
      show |-> <<115, 104, 111, 119>>,
      name |-> <<110, 97, 109, 101>>,
      field |-> <<102, 105, 101, 108, 100>>,
      columns |-> <<99, 111, 108, 117, 109, 110, 115>>,
      rows |-> <<114, 111, 119, 115>>,
      label |-> <<108, 97, 98, 101, 108>>,
      content |-> <<99, 111, 110, 116, 101, 110, 116>>,
      sql |-> <<115, 113, 108>>,
      none |-> <<110, 111, 110, 101>>,
      bar |-> <<98, 97, 114>>,
      line |-> <<108, 105, 110, 101>>,
      pie |-> <<112, 105, 101>>,
      query |-> <<113, 117, 101, 114, 121>>,
      schema |-> <<115, 99, 104, 101, 109, 97>>,
      list |-> <<108, 105, 115, 116>>,
      analyze |-> <<97, 110, 97, 108, 121, 122, 101>>,
      pregunta |-> <<80, 114, 101, 103, 117, 110, 116, 97>>,
      explorando |-> <<69, 120, 112, 108, 111, 114, 97, 110, 100, 111, 32, 101, 115, 113, 117, 101,
          109, 97>>,
      consultando |-> <<67, 111, 110, 115, 117, 108, 116, 97, 110, 100, 111, 32, 101, 115, 116,
          114, 117, 99, 116, 117, 114, 97, 32, 100, 101, 32, 116, 97, 98, 108, 97, 115, 46, 46,
          46>>,
      ejecutando |-> <<69, 106, 101, 99, 117, 116, 97, 110, 100, 111, 32, 83, 81, 76>>,
      resultados |-> <<82, 101, 115, 117, 108, 116, 97, 100, 111, 115, 58, 32>>,
      ellipsis |-> <<46, 46, 46>>,
      analizando |-> <<65, 110, 97, 108, 105, 122, 97, 110, 100, 111>>,
      procesando |-> <<80, 114, 111, 99, 101, 115, 97, 110, 100, 111, 32, 114, 101, 115, 117, 108,
          116, 97, 100, 111, 115, 32, 121, 32, 103, 101, 110, 101, 114, 97, 110, 100, 111, 32, 118,
          105, 115, 117, 97, 108, 105, 122, 97, 99, 105, 243, 110, 46, 46, 46>>,
      procesados |-> <<80, 114, 111, 99, 101, 115, 97, 100, 111, 115, 32>>,      \* "Procesados "
      registros |-> <<32, 114, 101, 103, 105, 115, 116, 114, 111, 115, 46>>,     \* " registros."
      noData |-> <<78, 111, 32, 115, 101, 32, 101, 110, 99, 111, 110, 116, 114, 97, 114, 111, 110,
          32, 100, 97, 116, 111, 115, 32, 112, 97, 114, 97, 32, 108, 97, 32, 115, 111, 108, 105,
          99, 105, 116, 117, 100, 46>>,
      oneRecord |-> <<83, 101, 32, 101, 110, 99, 111, 110, 116, 114, 243, 32, 49, 32, 114, 101,
          103, 105, 115, 116, 114, 111, 32, 113, 117, 101, 32, 99, 111, 105, 110, 99, 105, 100,
          101, 32, 99, 111, 110, 32, 116, 117, 32, 98, 250, 115, 113, 117, 101, 100, 97, 46>>,
      found |-> <<83, 101, 32, 101, 110, 99, 111, 110, 116, 114, 97, 114, 111, 110, 32>>,
      inTotal |-> <<32, 114, 101, 103, 105, 115, 116, 114, 111, 115, 32, 101, 110, 32, 116, 111,
          116, 97, 108, 46>>,
      errorEs |-> <<69, 114, 114, 111, 114, 32, 97, 108, 32, 99, 111, 110, 115, 117, 108, 116, 97,
          114, 32, 108, 97, 32, 98, 97, 115, 101, 32, 100, 101, 32, 100, 97, 116, 111, 115, 58,
          32>>,
      errorEn |-> <<69, 114, 114, 111, 114, 32, 113, 117, 101, 114, 121, 105, 110, 103, 32, 100,
          97, 116, 97, 98, 97, 115, 101, 58, 32>>,
      start |-> <<60, 60, 60, 71, 69, 78, 69, 82, 65, 84, 73, 86, 69, 95, 66, 73, 95, 83, 84, 65,
          82, 84, 62, 62, 62>>,
      end |-> <<60, 60, 60, 71, 69, 78, 69, 82, 65, 84, 73, 86, 69, 95, 66, 73, 95, 69, 78, 68, 62,
          62, 62>>,
      true |-> <<116, 114, 117, 101>>,
      false |-> <<102, 97, 108, 115, 101>>,
      null |-> <<110, 117, 108, 108>>,
      Infinity |-> <<73, 110, 102, 105, 110, 105, 116, 121>>,
      categoria |-> <<99, 97, 116, 101, 103, 111, 114, 105, 97>>,
      valor |-> <<118, 97, 108, 111, 114>>,
      periodo |-> <<112, 101, 114, 105, 111, 100, 111>>,
      total |-> <<116, 111, 116, 97, 108>>,
      nombre |-> <<110, 111, 109, 98, 114, 101>>,
      tendencia |-> <<84, 101, 110, 100, 101, 110, 99, 105, 97, 32, 112, 111, 114, 32, 80, 101,
          114, 237, 111, 100, 111>>,
      top10 |-> <<84, 111, 112, 32, 49, 48, 32>>,
      Categoria |-> <<67, 97, 116, 101, 103, 111, 114, 105, 97>>,
      Periodo |-> <<80, 101, 114, 105, 111, 100, 111>>,
      Nombre |-> <<78, 111, 109, 98, 114, 101>>,
      Datos |-> <<68, 97, 116, 111, 115>>,
      periodoLabel |-> <<80, 101, 114, 237, 111, 100, 111>>,
      categoriaLabel |-> <<67, 97, 116, 101, 103, 111, 114, 237, 97>>,
      totalUsd |-> <<84, 111, 116, 97, 108, 32, 40, 36, 41>>,
      Total |-> <<84, 111, 116, 97, 108>>,
      fbTitleOpen |-> <<84, 111, 116, 97, 108, 32, 112, 111, 114, 32, 80, 101, 114, 237, 111, 100,
          111, 32, 40>>,
      fbTitleClose |-> <<32, 114, 101, 103, 105, 115, 116, 114, 111, 115, 41>>,
      ValueError |-> <<86, 97, 108, 117, 101, 69, 114, 114, 111, 114>>,
      infToInt |-> <<99, 97, 110, 110, 111, 116, 32, 99, 111, 110, 118, 101, 114, 116, 32, 102,
          108, 111, 97, 116, 32, 105, 110, 102, 105, 110, 105, 116, 121, 32, 116, 111, 32, 105,
          110, 116, 101, 103, 101, 114>>,
      intTooLarge |-> <<105, 110, 116, 32, 116, 111, 111, 32, 108, 97, 114, 103, 101, 32, 116, 111,
          32, 99, 111, 110, 118, 101, 114, 116, 32, 116, 111, 32, 102, 108, 111, 97, 116>>,
      OverflowError |-> <<79, 118, 101, 114, 102, 108, 111, 119, 69, 114, 114, 111, 114>>]

\* the code points of a str the analysis returned
Codes(s) ==
    CASE s = "none" -> LIT.none [] s = "bar" -> LIT.bar [] s = "line" -> LIT.line
      [] s = "pie" -> LIT.pie
      [] s = "categoria" -> LIT.categoria [] s = "valor" -> LIT.valor
      [] s = "periodo" -> LIT.periodo [] s = "total" -> LIT.total
      [] s = "nombre" -> LIT.nombre
      [] s = "Tendencia por Período" -> LIT.tendencia
      [] s = "Categoria" -> LIT.Categoria [] s = "Top 10 Categoria" -> LIT.top10 \o LIT.Categoria
      [] s = "Periodo" -> LIT.Periodo [] s = "Top 10 Periodo" -> LIT.top10 \o LIT.Periodo
      [] s = "Nombre" -> LIT.Nombre [] s = "Top 10 Nombre" -> LIT.top10 \o LIT.Nombre
      [] s = "Datos" -> LIT.Datos [] s = "Top 10 Datos" -> LIT.top10 \o LIT.Datos
      [] s = "Período" -> LIT.periodoLabel [] s = "Categoría" -> LIT.categoriaLabel
      [] s = "Total ($)" -> LIT.totalUsd [] s = "Total" -> LIT.Total
      [] s = "ValueError" -> LIT.ValueError [] s = "OverflowError" -> LIT.OverflowError
      [] OTHER ->
           LET k == CHOOSE n \in 0..FbMaxDisplay :
                        s = "Total por Período (" \o ToString(n) \o " registros)"
           IN  LIT.fbTitleOpen \o IntStr(k) \o LIT.fbTitleClose

----------------------------------------------------------------------------
(* JSON values: what query_database builds and json.dumps serializes.      *)

JStr(s) == [t |-> "str", x |-> s]
JNum(n) == [t |-> "num", x |-> n]
JBool(b) == [t |-> "bool", x |-> b]
JArr(a) == [t |-> "arr", x |-> a]
\* a dict: its items in insertion order, each <<key, value>>
JObj(items) == [t |-> "obj", x |-> items]
\* None
JNull == [t |-> "null", x |-> 0]

\* the pieces f[lo..hi] joined
RECURSIVE Flatten(_, _, _)
Flatten(f, lo, hi) ==
    IF lo > hi THEN <<>>
    ELSE IF lo = hi THEN f[lo]
    ELSE LET mid == (lo + hi) \div 2
         IN  Flatten(f, lo, mid) \o Flatten(f, mid + 1, hi)

\* sep.join(parts)
Join(parts, sep) ==
    Flatten([i \in 1..Len(parts) |-> IF i > 1 THEN sep \o parts[i] ELSE parts[i]],
            1, Len(parts))

\* the characters a substitution leaves out
Dropped == 0 - 1
Compact(s) == SelectSeq(s, LAMBDA c : c # Dropped)

\* str.replace(a1 a2, b) for two different characters a1, a2
ReplacePair(s, a1, a2, b) ==
    LET at(i) == i >= 1 /\ i < Len(s) /\ s[i] = a1 /\ s[i + 1] = a2
    IN  Compact([i \in 1..Len(s) |->
                    IF at(i) THEN b ELSE IF at(i - 1) THEN Dropped ELSE s[i]])

\* re.sub(r'(?<!\\)\\n', '\n', text)
ReplaceLoneBackslashN(s) ==
    LET at(i) == /\ i >= 1 /\ i < Len(s) /\ s[i] = 92 /\ s[i + 1] = 110
                 /\ (i = 1 \/ s[i - 1] # 92)
    IN  Compact([i \in 1..Len(s) |->
                    IF at(i) THEN CH.NL ELSE IF at(i - 1) THEN Dropped ELSE s[i]])

\* re.sub(r'\n{3,}', '\n\n', text): a newline behind two newlines goes
CollapseNewlines(s) ==
    Compact([i \in 1..Len(s) |->
                IF i > 2 /\ s[i] = CH.NL /\ s[i - 1] = CH.NL /\ s[i - 2] = CH.NL
                THEN Dropped ELSE s[i]])

\* [\x00-\x08\x0b\x0c\x0e-\x1f\x7f]
IsControl(c) == c \in 0..8 \/ c \in {11, 12} \/ c \in 14..31 \/ c = 127

sanitize_text_for_json(text) ==
    LET t1 == ReplacePair(text, 13, CH.NL, CH.NL)
        t2 == Replace(t1, 13, CH.NL)
        t3 == Remove(t2, 0)
        t4 == ReplacePair(t3, 92, 110, CH.NL)
        t5 == ReplacePair(t4, 92, 116, 9)
        t6 == ReplaceLoneBackslashN(t5)
        t7 == CollapseNewlines(t6)
    IN  SelectSeq(t7, LAMBDA c : ~IsControl(c))
\* a walk that cleans the keys of a dict as well as its values
RECURSIVE SanitizeKeysToo(_)
SanitizeKeysToo(obj) ==
    CASE obj.t = "obj" ->
             JObj([i \in 1..Len(obj.x) |->
                      <<sanitize_text_for_json(obj.x[i][1]), SanitizeKeysToo(obj.x[i][2])>>])
      [] obj.t = "arr" -> JArr([i \in 1..Len(obj.x) |-> SanitizeKeysToo(obj.x[i])])
      [] obj.t = "str" -> JStr(sanitize_text_for_json(obj.x))
      [] OTHER -> obj

RECURSIVE sanitize_dict_for_json(_)
sanitize_dict_for_json(obj) ==
    CASE obj.t = "obj" ->
             JObj([i \in 1..Len(obj.x) |-> <<obj.x[i][1], sanitize_dict_for_json(obj.x[i][2])>>])
      [] obj.t = "arr" -> JArr([i \in 1..Len(obj.x) |-> sanitize_dict_for_json(obj.x[i])])
      [] obj.t = "str" -> JStr(sanitize_text_for_json(obj.x))
      [] OTHER -> obj

\* sanitize_text_for_json on a text whose lines hold no line break and no
\* backslash: the function works on every line by itself
SanitizeLines(text) ==
    [i \in 1..Len(text) |->
        Line(text[i].kind, sanitize_text_for_json(text[i].label),
             sanitize_text_for_json(text[i].value))]

----------------------------------------------------------------------------
(* format_monetary_values_in_text.                                         *)

\* \d{1,3}(?:,\d{3})+(?:\.\d{1,2})?
IsAmerican(v) ==
    LET dot == IF HasCh(v, CH.DOT)
               THEN CHOOSE i \in 1..Len(v) : v[i] = CH.DOT /\ \A j \in 1..(i - 1) : v[j] # CH.DOT
               ELSE Len(v) + 1
        whole == SubSeq(v, 1, dot - 1)
        frac == SubSeq(v, dot + 1, Len(v))
        comma == IF HasCh(whole, CH.COMMA)
                 THEN CHOOSE i \in 1..Len(whole) :
                          whole[i] = CH.COMMA /\ \A j \in 1..(i - 1) : whole[j] # CH.COMMA
                 ELSE 0
        groups == SubSeq(whole, comma, Len(whole))
    IN  /\ comma \in 2..4
        /\ AllDigits(SubSeq(whole, 1, comma - 1))
        /\ Len(groups) % 4 = 0
        /\ \A i \in 1..Len(groups) :
               IF i % 4 = 1 THEN groups[i] = CH.COMMA ELSE IsDigit(groups[i])
        /\ (dot <= Len(v) => Len(frac) \in 1..2 /\ AllDigits(frac))

\* (\d{4,})\.(\d{1,2})
IsRawDecimal(v) ==
    \E dot \in 5..(Len(v) - 1) :
        /\ v[dot] = CH.DOT
        /\ AllDigits(SubSeq(v, 1, dot - 1))
        /\ Len(v) - dot \in 1..2 /\ AllDigits(SubSeq(v, dot + 1, Len(v)))

\* (\d{4,})
IsLargeInt(v) == Len(v) >= 4 /\ AllDigits(v)

\* round(x) for a float: to the nearest integer, a tie to the even one
PyRound(x) ==
    LET lo == x.c \div Scale
        rest == (x.c % Scale) * 2
    IN  IF rest > Scale \/ (rest = Scale /\ lo % 2 = 1) THEN lo + 1 ELSE lo

\* f"{rounded:,}".replace(',', '.')
RECURSIVE to_colombian_format(_)
to_colombian_format(n) ==
    IF n < 1000 THEN IntStr(n)
    ELSE LET r == n % 1000
         IN  to_colombian_format(n \div 1000) \o <<CH.DOT>>
             \o (IF r < 10 THEN <<CH.ZERO, CH.ZERO>> ELSE IF r < 100 THEN <<CH.ZERO>> ELSE <<>>)
             \o IntStr(r)

\* the three substitutions on a numeric literal that stands between '$' and
\* the end of its line or a space: a literal of one of the three forms is
\* rewritten as a whole
FormatValue(v) ==
    LET american == IF IsAmerican(v)
                    THEN to_colombian_format(PyRound(PyFloat(Remove(v, CH.COMMA)).v))
                    ELSE v
        decimal  == IF IsRawDecimal(american)
                    THEN to_colombian_format(PyRound(PyFloat(american).v))
                    ELSE american
    IN  IF IsLargeInt(decimal)
        THEN to_colombian_format(PyIntOfStr(decimal).v.c \div Scale)
        ELSE decimal

\* the message of the OverflowError the function lets escape (<<>> if it
\* raises none): round() of an infinite float, float() of an int beyond the
\* doubles.  Each substitution runs over the whole text before the next.
FormatError(text) ==
    IF \E i \in 1..Len(text) :
           /\ IsAmerican(text[i].value) \/ IsRawDecimal(text[i].value)
           /\ IsInf(PyFloat(Remove(text[i].value, CH.COMMA)).v)
    THEN LIT.infToInt
    ELSE IF \E i \in 1..Len(text) :
                IsLargeInt(text[i].value) /\ IsInf(PyFloat(text[i].value).v)
    THEN LIT.intTooLarge
    ELSE <<>>

\* the labels of the texts hold no number of any of the three forms
format_monetary_values_in_text(text) ==
    [i \in 1..Len(text) |->
        Line(text[i].kind, text[i].label, FormatValue(text[i].value))]

----------------------------------------------------------------------------
(* json.dumps(obj, ensure_ascii=True, separators=(item_sep, key_sep)).     *)

HexDigit(n) == IF n < 10 THEN CH.ZERO + n ELSE 87 + n

\* py_encode_basestring_ascii on one character (of the basic plane)
EscapeCh(c) ==
    CASE c = 34 -> <<92, 34>>
      [] c = 92 -> <<92, 92>>
      [] c = 10 -> <<92, 110>>
      [] c = 13 -> <<92, 114>>
      [] c = 9  -> <<92, 116>>
      [] c = 8  -> <<92, 98>>
      [] c = 12 -> <<92, 102>>
      [] c \in 32..126 -> <<c>>
      [] OTHER -> <<92, 117, HexDigit(c \div 4096), HexDigit((c \div 256) % 16),
                    HexDigit((c \div 16) % 16), HexDigit(c % 16)>>

Quoted(s) == <<34>> \o Flatten([i \in 1..Len(s) |-> EscapeCh(s[i])], 1, Len(s)) \o <<34>>

\* float.__repr__ / int.__repr__ as the encoder writes them; inf is written
\* as the bare word Infinity (allow_nan is left at its default)
DumpsNum(x) == IF IsInf(x) THEN LIT.Infinity ELSE NumStr(x)

RECURSIVE Dumps(_, _, _)
Dumps(obj, item_sep, key_sep) ==
    CASE obj.t = "str"  -> Quoted(obj.x)
      [] obj.t = "num"  -> DumpsNum(obj.x)
      [] obj.t = "bool" -> IF obj.x THEN LIT.true ELSE LIT.false
      [] obj.t = "arr"  ->
             <<91>> \o Join([i \in 1..Len(obj.x) |-> Dumps(obj.x[i], item_sep, key_sep)],
                            item_sep) \o <<93>>
      [] obj.t = "obj"  ->
             <<123>> \o Join([i \in 1..Len(obj.x) |->
                                 Quoted(obj.x[i][1]) \o key_sep
                                 \o Dumps(obj.x[i][2], item_sep, key_sep)],
                             item_sep) \o <<125>>

----------------------------------------------------------------------------
(* query_database.                                                         *)

\* str(observation)[:200]
ObsPreviewLen == 200
\* raw_output[:500]
ConclusionMaxLen == 500

\* bool(v) of a value: "not v" is its negation
Truthy(v) ==
    CASE v.t \in {"str", "arr", "obj"} -> v.x # <<>>
      [] v.t = "num" -> v.x.c # 0
      [] v.t = "bool" -> v.x
      [] OTHER -> FALSE

\* len(v): a TypeError for a number, a bool or None
PyLen(v) ==
    IF v.t \in {"str", "arr", "obj"}
    THEN [err |-> "none", v |-> Len(v.x)]
    ELSE [err |-> "TypeError", v |-> 0]

HasKey(d, key) == \E i \in 1..Len(d.x) : d.x[i][1] = key

\* d[key]
Get(d, key) ==
    LET at == {i \in 1..Len(d.x) : d.x[i][1] = key}
    IN  d.x[CHOOSE i \in at : \A j \in at : i <= j][2]

\* generate_conclusion(data, question) for a dict: the message, or the
\* exception that escapes.  len(rows) raises inside the try block for a
\* value without a length; the handler then evaluates
\* len(data.get('rows', [])), which raises the same error again, outside
\* any try block.
generate_conclusion(d) ==
    IF ~Truthy(d) \/ ~HasKey(d, LIT.rows) \/ ~Truthy(Get(d, LIT.rows))
    THEN [err |-> "none", v |-> LIT.noData]
    ELSE LET num_records == PyLen(Get(d, LIT.rows))
             handler == PyLen(IF HasKey(d, LIT.rows) THEN Get(d, LIT.rows) ELSE JArr(<<>>))
         IN  IF num_records.err = "none"
             THEN [err |-> "none",
                   v |-> IF num_records.v = 1 THEN LIT.oneRecord
                         ELSE LIT.found \o IntStr(num_records.v) \o LIT.inTotal]
             ELSE IF handler.err = "none"
             THEN [err |-> "none", v |-> LIT.procesados \o IntStr(handler.v) \o LIT.registros]
             ELSE [err |-> handler.err, v |-> <<>>]

ThinkingStep(type, label, content) ==
    JObj(<< <<LIT.type, JStr(type)>>, <<LIT.label, JStr(label)>>,
            <<LIT.content, JStr(content)>> >>)

\* the entry one intermediate step adds to thinking_steps (none for a tool
\* that is neither a schema nor a query tool)
StepEntries(step) ==
    LET tool_name == Lower(step.tool)
        obs_preview == IF Len(step.observation) > ObsPreviewLen
                       THEN Take(step.observation, ObsPreviewLen) \o LIT.ellipsis
                       ELSE step.observation
    IN  IF Contains(tool_name, LIT.schema) \/ Contains(tool_name, LIT.list)
        THEN <<ThinkingStep(LIT.schema, LIT.explorando, LIT.consultando)>>
        ELSE IF Contains(tool_name, LIT.query)
        THEN <<JObj(<< <<LIT.type, JStr(LIT.sql)>>, <<LIT.label, JStr(LIT.ejecutando)>>,
                       <<LIT.content, JStr(LIT.resultados \o obs_preview)>>,
                       <<LIT.sql, JStr(step.query)>> >>)>>
        ELSE <<>>

thinking_steps(q, steps) ==
    <<ThinkingStep(LIT.query, LIT.pregunta, q)>>
    \o Flatten([i \in 1..Len(steps) |-> StepEntries(steps[i])], 1, Len(steps))
    \o <<ThinkingStep(LIT.analyze, LIT.analizando, LIT.procesando)>>

\* viz_config.get("data", {})
DataObj(cfg) ==
    IF "data" \in DOMAIN cfg
    THEN JObj(<< <<LIT.columns,
                   JArr([i \in 1..Len(cfg.data.columns) |-> JStr(Codes(cfg.data.columns[i]))])>>,
                 <<LIT.rows,
                   JArr([i \in 1..Len(cfg.data.rows) |->
                            JArr(<<JStr(cfg.data.rows[i][1]), JNum(cfg.data.rows[i][2])>>)])>> >>)
    ELSE JObj(<<>>)

\* the "visualization" entry of the response
Visualization(cfg) ==
    IF cfg.visualizable
    THEN JObj(<< <<LIT.type, JStr(Codes(cfg.type))>>,
                 <<LIT.title, JStr(Codes(cfg.title))>>,
                 <<LIT.xAxis, JStr(Codes(cfg.xAxis))>>,
                 <<LIT.yAxis, JStr(Codes(cfg.yAxis))>>,
                 <<LIT.xAxisLabel, JStr(Codes(cfg.xAxisLabel))>>,
                 <<LIT.yAxisLabel, JStr(Codes(cfg.yAxisLabel))>>,
                 <<LIT.series,
                   JArr([i \in 1..Len(cfg.series) |->
                            JObj(<< <<LIT.name, JStr(Codes(cfg.series[i].name))>>,
                                    <<LIT.field, JStr(Codes(cfg.series[i].field))>> >>)])>>,
                 <<LIT.legend, JObj(<< <<LIT.show, JBool(cfg.legend.show)>> >>)>> >>)
    ELSE JObj(<< <<LIT.type, JStr(LIT.none)>> >>)

\* the response of the success path, before the sanitizing walk
Response(cfg, raw_output, q, steps) ==
    LET data_rows == IF "data" \in DOMAIN cfg THEN cfg.data.rows ELSE <<>>
        conclusion == IF cfg.visualizable /\ "data" \in DOMAIN cfg
                      THEN generate_conclusion(DataObj(cfg)).v
                      ELSE Take(raw_output, ConclusionMaxLen)
    IN  JObj(<< <<LIT.data, DataObj(cfg)>>,
                <<LIT.visualizable, JBool(cfg.visualizable)>>,
                <<LIT.conclusion, JStr(conclusion)>>,
                <<LIT.visualization, Visualization(cfg)>>,
                <<LIT.text, JStr(raw_output)>>,
                <<LIT.thinking, JArr(thinking_steps(q, steps))>>,
                <<LIT.isTop10, JBool(IF "isTop10" \in DOMAIN cfg THEN cfg.isTop10 ELSE FALSE)>>,
                <<LIT.totalRecords,
                  JNum(PyInt(IF "totalRecords" \in DOMAIN cfg THEN cfg.totalRecords
                             ELSE Len(data_rows)))>> >>)
\* an error object whose text leaves the error message out
ErrorResponseNoMessage(message) ==
    JObj(<< <<LIT.data, JObj(<<>>)>>,
            <<LIT.visualizable, JBool(FALSE)>>,
            <<LIT.conclusion, JStr(LIT.errorEs \o message)>>,
            <<LIT.visualization, JObj(<< <<LIT.type, JStr(LIT.none)>> >>)>>,
            <<LIT.text, JStr(LIT.errorEn)>>,
            <<LIT.thinking, JArr(<<>>)>>,
            <<LIT.isTop10, JBool(FALSE)>>,
            <<LIT.totalRecords, JNum(PyInt(0))>> >>)

\* error_response of the except clause
error_response(message) ==
    JObj(<< <<LIT.data, JObj(<<>>)>>,
            <<LIT.visualizable, JBool(FALSE)>>,
            <<LIT.conclusion, JStr(LIT.errorEs \o message)>>,
            <<LIT.visualization, JObj(<< <<LIT.type, JStr(LIT.none)>> >>)>>,
            <<LIT.text, JStr(LIT.errorEn \o message)>>,
            <<LIT.thinking, JArr(<<>>)>>,
            <<LIT.isTop10, JBool(FALSE)>>,
            <<LIT.totalRecords, JNum(PyInt(0))>> >>)

\* f"<<<GENERATIVE_BI_START>>>\n{json_str}\n<<<GENERATIVE_BI_END>>>"
Wrapped(json_str) == LIT.start \o <<CH.NL>> \o json_str \o <<CH.NL>> \o LIT.end

NoAgent == [raises |-> FALSE, message |-> <<>>, output |-> <<>>, steps |-> <<>>]
NoResponse == JObj(<<>>)

\* sql_agent.invoke: the agent answers or raises; the answer is sanitized
\* and its amounts are rewritten before analyze_visualization is called; an
\* OverflowError of the rewriting goes to the except clause
Invoke ==
    /\ qpc = "invoke"
    /\ IF agent.raises \/ FormatError(SanitizeLines(agent.output)) # <<>>
       THEN qpc' = "except" /\ UNCHANGED <<raw_data, pc>>
       ELSE /\ raw_data' = format_monetary_values_in_text(SanitizeLines(agent.output))
            /\ pc' = "call"
            /\ qpc' = "analyze"
    /\ UNCHANGED <<question, rows, columns, fb_rows, result, exc, agent, response, wire, fvars, vpvars, tvars, hvars>>

\* the rest of the try block once analyze_visualization is back: response,
\* sanitizing walk, json.dumps, return; an exception that escaped the
\* analysis goes to the except clause instead
Respond ==
    /\ qpc = "analyze"
    /\ pc \in {"return", "raised"}
    /\ IF pc = "raised"
       THEN qpc' = "except" /\ UNCHANGED <<response, wire>>
       ELSE LET built == Response(result, TextStr(raw_data), question, agent.steps)
                clean == sanitize_dict_for_json(built)
            IN  /\ response' = clean
                /\ wire' = Wrapped(Dumps(clean, <<CH.COMMA>>, <<CH.COLON>>))
                /\ qpc' = "return"
    /\ UNCHANGED <<raw_data, question, pc, rows, columns, fb_rows, result, exc, agent, fvars, vpvars, tvars, hvars>>

\* except Exception as e: the error response, json.dumps with the default
\* separators
Except ==
    /\ qpc = "except"
    /\ LET message == IF agent.raises THEN agent.message
                      ELSE IF exc # "none" THEN Codes(exc)
                      ELSE FormatError(SanitizeLines(agent.output))
           built == error_response(message)
       IN  /\ response' = built
           /\ wire' = Wrapped(Dumps(built, <<CH.COMMA, CH.SPACE>>, <<CH.COLON, CH.SPACE>>))
    /\ qpc' = "return"
    /\ UNCHANGED <<raw_data, question, pc, rows, columns, fb_rows, result, exc, agent, fvars, vpvars, tvars, hvars>>

----------------------------------------------------------------------------
(* The Hugging Face tools of app/hf_tools.py: five tools, each in front of *)
(* a functools.lru_cache whose key ends with a time bucket, and the lazily *)
(* created module-level objects _hf_client (app/hf_mcp_client.py) and      *)
(* _sql_agent (app/agent.py).                                              *)
(*                                                                         *)
(* Queries and identifiers are opaque: they are numbered. The optional     *)
(* filters (task, library, sdk) are left at None. An instance is named by  *)
(* the order of its construction; 0 stands for None.                       *)

CACHE_TTL_SECONDS == 300
CACHE_MAX_SIZE == 128
\* @lru_cache(maxsize=64) of the two detail functions
InfoCacheSize == 64
\* limit = min(max(1, limit), 20)
MinLimit == 1
MaxLimit == 20

SearchTools == {"search_hf_models", "search_hf_datasets", "search_hf_spaces"}
DetailTools == {"get_hf_model_details", "get_hf_dataset_details"}
HfTools == SearchTools \cup DetailTools

\* the cached function a tool calls
CachedFn(tool) ==
    CASE tool = "search_hf_models"       -> "_cached_search_models"
      [] tool = "search_hf_datasets"     -> "_cached_search_datasets"
      [] tool = "search_hf_spaces"       -> "_cached_search_spaces"
      [] tool = "get_hf_model_details"   -> "_cached_model_info"
      [] tool = "get_hf_dataset_details" -> "_cached_dataset_info"

CachedFns == {CachedFn(tool) : tool \in HfTools}

\* maxsize of the decorator of a cached function
maxsize(fn) ==
    IF fn \in {"_cached_model_info", "_cached_dataset_info"} THEN InfoCacheSize
    ELSE CACHE_MAX_SIZE

\* a time bucket that never changes
FixedBucket(t) == 0

\* _get_cache_key_time_bucket() at time t: int(time.time() // CACHE_TTL_SECONDS)
get_cache_key_time_bucket(t) == t \div CACHE_TTL_SECONDS

\* min(max(1, limit), 20)
CappedLimit(limit) ==
    LET atLeast == IF limit < MinLimit THEN MinLimit ELSE limit
    IN  IF atLeast > MaxLimit THEN MaxLimit ELSE atLeast

\* the arguments a tool passes to its cached function: the key of the cache
CacheKey(tool, arg, limit, bucket) ==
    CASE tool = "search_hf_models" -> <<arg, CappedLimit(limit), "None", "None", bucket>>
      [] tool \in {"search_hf_datasets", "search_hf_spaces"} ->
             <<arg, CappedLimit(limit), "None", bucket>>
      [] OTHER -> <<arg, bucket>>

\* the _time_bucket of a key, and the other arguments
BucketOf(key) == key[Len(key)]
ParamsOf(key) == SubSeq(key, 1, Len(key) - 1)

\* the position of a key in a cache (oldest entry first), 0 if it has none
Position(c, key) ==
    IF \E i \in 1..Len(c) : c[i].key = key
    THEN CHOOSE i \in 1..Len(c) : c[i].key = key
    ELSE 0

\* @lru_cache(maxsize=size) around a function: a key the cache holds is
\* answered from the cache and becomes the most recent entry; any other key
\* calls the function and stores what it returned, whatever it returned,
\* in place of the least recent entry when the cache is full
lru_cache(c, size, key, fetched) ==
    LET i == Position(c, key)
    IN  IF i > 0
        THEN [hit |-> TRUE, value |-> c[i].value,
              cache |-> SubSeq(c, 1, i - 1) \o SubSeq(c, i + 1, Len(c)) \o <<c[i]>>]
        ELSE [hit |-> FALSE, value |-> fetched,
              cache |-> (IF Len(c) >= size THEN Tail(c) ELSE c)
                            \o <<[key |-> key, value |-> fetched]>>]

\* what a method of HuggingFaceMCPClient returns: a dict with success = True,
\* or, when the request raised, a dict with success = False; fetched_at is
\* the time of the request
ClientResult(ok, t) == [success |-> ok, fetched_at |-> t]

NoCall == [tool |-> "none"]

\* longest sequence of calls and clock advances with freely chosen arguments
MaxHfSteps == 3
\* calls made after a cache became full
FillExtra == 3
\* calls each thread makes to a getter
MaxGets == 2

HfArgs == {1, 2}
HfLimits == {20, 25}
\* the clock advances by a second, by the TTL or by a second less than the TTL
TickSizes == {1, CACHE_TTL_SECONDS - 1, CACHE_TTL_SECONDS}

\* a call of one of the five tools: the limit is capped, the time bucket is
\* read, the cached function is called (on a miss it gets the client, which
\* the first call creates, and asks upstream) and the result is returned
HfCall ==
    /\ hf_plan.kind \in {"mixed", "fill"}
    /\ \E tool \in HfTools :
       \E arg \in HfArgs \cup {Len(requests[CachedFn(tool)]) + 1},
          limit \in HfLimits, ok \in BOOLEAN :
         LET fn == CachedFn(tool)
             key == CacheKey(tool, arg, limit, get_cache_key_time_bucket(hf_now))
             r == lru_cache(cache[fn], maxsize(fn), key, ClientResult(ok, hf_now))
         IN  /\ IF hf_plan.kind = "mixed"
                THEN hf_steps < MaxHfSteps /\ arg \in HfArgs
                ELSE /\ hf_steps < maxsize(fn) + FillExtra
                     /\ tool = hf_plan.tool /\ ok /\ limit = MaxLimit
                     /\ \/ arg = Len(requests[fn]) + 1
                        \/ arg = 1 /\ Len(cache[fn]) = maxsize(fn)
             /\ cache' = [cache EXCEPT ![fn] = r.cache]
             /\ requests' = IF r.hit THEN requests
                            ELSE [requests EXCEPT ![fn] = @ \o <<[key |-> key, at |-> hf_now]>>]
             /\ IF r.hit \/ singleton["_hf_client"] # 0
                THEN UNCHANGED <<singleton, constructed>>
                ELSE /\ constructed' = [constructed EXCEPT !["_hf_client"] = @ + 1]
                     /\ singleton' = [singleton EXCEPT !["_hf_client"] = constructed["_hf_client"] + 1]
             /\ last_call' = [tool |-> tool, key |-> key, at |-> hf_now,
                              hit |-> r.hit, result |-> r.value]
    /\ hf_steps' = hf_steps + 1
    /\ UNCHANGED <<hf_now, hf_plan, getters, avars, qvars, fvars, vpvars, tvars>>

\* time passes between two calls
HfTick ==
    /\ hf_plan.kind = "mixed"
    /\ hf_steps < MaxHfSteps
    /\ \E d \in TickSizes : hf_now' = hf_now + d
    /\ hf_steps' = hf_steps + 1
    /\ UNCHANGED <<cache, requests, last_call, hf_plan, singleton, constructed, getters,
                   avars, qvars, fvars, vpvars, tvars>>

\* the module-level names of the two lazily created objects
Singletons == {"_hf_client", "_sql_agent"}

\* a call of a getter that has not started
NewGetter(name, n) == [name |-> name, pc |-> "test", local |-> 0, ret |-> 0, calls |-> n]

\* if _hf_client is None: / if _sql_agent is None:
GetTest(t) ==
    /\ getters[t].pc = "test"
    /\ getters' = [getters EXCEPT ![t].pc =
                       IF singleton[getters[t].name] = 0 THEN "construct" ELSE "return"]
    /\ UNCHANGED <<singleton, constructed>>

\* HuggingFaceMCPClient() / create_sql_agent(...): the right-hand side of the
\* assignment is evaluated
GetConstruct(t) ==
    /\ getters[t].pc = "construct"
    /\ constructed' = [constructed EXCEPT ![getters[t].name] = @ + 1]
    /\ getters' = [getters EXCEPT ![t].pc = "assign",
                                  ![t].local = constructed[getters[t].name] + 1]
    /\ UNCHANGED singleton

\* the module-level name is bound to the new object
GetAssign(t) ==
    /\ getters[t].pc = "assign"
    /\ singleton' = [singleton EXCEPT ![getters[t].name] = getters[t].local]
    /\ getters' = [getters EXCEPT ![t].pc = "return"]
    /\ UNCHANGED constructed

\* return _hf_client / return _sql_agent: the module-level name is read
GetReturn(t) ==
    /\ getters[t].pc = "return"
    /\ getters' = [getters EXCEPT ![t].pc = "done", ![t].ret = singleton[getters[t].name]]
    /\ UNCHANGED <<singleton, constructed>>

\* the thread calls a getter again
GetAgain(t) ==
    /\ getters[t].pc = "done"
    /\ getters[t].calls < MaxGets
    /\ \E name \in Singletons : getters' = [getters EXCEPT ![t] = NewGetter(name, getters[t].calls + 1)]
    /\ UNCHANGED <<singleton, constructed>>

\* one step of one thread in a getter
GetStep(t) ==
    /\ t \in DOMAIN getters
    /\ \/ GetTest(t)
       \/ GetConstruct(t)
       \/ GetAssign(t)
       \/ GetReturn(t)
       \/ GetAgain(t)
    /\ UNCHANGED <<hf_now, cache, requests, last_call, hf_plan, hf_steps,
                   avars, qvars, fvars, vpvars, tvars>>

\* no Hugging Face tool and no getter is called
NoHfCall ==
    /\ hf_now = 0
    /\ cache = [fn \in CachedFns |-> <<>>]
    /\ requests = [fn \in CachedFns |-> <<>>]
    /\ last_call = NoCall
    /\ hf_plan = [kind |-> "none"]
    /\ hf_steps = 0
    /\ singleton = [name \in Singletons |-> 0]
    /\ constructed = [name \in Singletons |-> 0]
    /\ getters = <<>>

----------------------------------------------------------------------------
(* The helper functions called by themselves: sanitize_text_for_json,      *)
(* sanitize_dict_for_json, generate_conclusion.                            *)

\* neither analyze_visualization nor query_database is called
NoMainCall ==
    /\ raw_data = <<>>
    /\ question = <<>>
    /\ pc = "idle"
    /\ rows = <<>>
    /\ columns = <<>>
    /\ fb_rows = <<>>
    /\ result = NoResult
    /\ exc = "none"
    /\ agent = NoAgent
    /\ qpc = "idle"
    /\ response = NoResponse
    /\ wire = <<>>

\* no helper function is called
NoHelperCall ==
    /\ fpc = "idle"
    /\ in_text = <<>>
    /\ out_text = <<>>
    /\ in_obj = NoResponse
    /\ out_obj = NoResponse
    /\ in_data = NoResponse
    /\ out_conclusion = <<>>

\* no function of app_utils/viz_parser.py is called and no call runs
\* concurrently with another
NoOtherCall ==
    /\ clock = 0
    /\ vp_pc = "idle"
    /\ start_time = 0
    /\ vp_rows = <<>>
    /\ vp_columns = <<>>
    /\ vp_results = <<>>
    /\ frames = <<>>
    /\ sql_agent = "None"
    /\ NoHfCall

\* a call of sanitize_text_for_json(in_text)
SanitizeText ==
    /\ fpc = "text"
    /\ out_text' = sanitize_text_for_json(in_text)
    /\ fpc' = "text_return"
    /\ UNCHANGED <<in_text, in_obj, out_obj, in_data, out_conclusion, avars, qvars, vpvars, tvars, hvars>>

\* a call of sanitize_dict_for_json(obj): the comprehensions build a new
\* dict and a new list at every level, the argument is only read
SanitizeDict ==
    /\ fpc = "dict"
    /\ out_obj' = sanitize_dict_for_json(in_obj)
    /\ fpc' = "dict_return"
    /\ UNCHANGED <<in_text, out_text, in_obj, in_data, out_conclusion, avars, qvars, vpvars, tvars, hvars>>

\* a call of generate_conclusion(data, question): it returns a message or
\* lets an exception escape
Conclude ==
    /\ fpc = "data"
    /\ out_conclusion' = generate_conclusion(in_data)
    /\ fpc' = IF generate_conclusion(in_data).err = "none" THEN "data_return" ELSE "data_raised"
    /\ UNCHANGED <<in_text, out_text, in_obj, out_obj, in_data, avars, qvars, vpvars, tvars, hvars>>

----------------------------------------------------------------------------
(* app_utils/viz_parser.py: analyze_visualization with its own fallback    *)
(* and _build_viz_config, which stamps the result with the time the call   *)
(* took.  The clock is read where the code calls time.time().              *)

\* the clock values the model follows
MaxClock == 2

\* temporal_keywords of _build_viz_config
vp_temporal_keywords ==
    <<KW.mes, KW.mensual, KW.anio, KW.anual, KW.fecha, KW.periodo, KW.tendencia,
      KW.y2024, KW.y2025, KW.y2026>>

\* _build_viz_config(rows, columns, question, start_time), time.time() being now
build_viz_config(rs, cols, q, start, now) ==
    LET is_temporal == IsTemporal(vp_temporal_keywords, q, rs)
        num_items == Len(rs)
        chart_type == ChartType(is_temporal, num_items)
        sorted == SortedFor(chart_type, rs)
        max_display == MaxDisplayFor(chart_type)
        display_rows == Take(sorted, max_display)
    IN  [visualizable |-> TRUE,
         type         |-> chart_type,
         title        |-> IF is_temporal THEN "Tendencia por Período"
                          ELSE "Top " \o TitleCase(cols[1]),
         xAxis        |-> cols[1],
         yAxis        |-> IF Len(cols) > 1 THEN cols[2] ELSE "valor",
         data         |-> [columns |-> cols, rows |-> display_rows],
         totalRecords |-> num_items,
         elapsedMs    |-> now - start]

\* the clock advances while a call runs
Tick ==
    /\ vp_pc \notin {"idle", "done"}
    /\ clock < MaxClock
    /\ clock' = clock + 1
    /\ UNCHANGED <<vp_pc, start_time, vp_rows, vp_columns, vp_results, avars, qvars, fvars, tvars, hvars>>

\* start_time = time.time(); if len(raw_data.strip()) < 30: return
VpCall ==
    /\ vp_pc = "call"
    /\ start_time' = clock
    /\ vp_rows' = <<>>
    /\ vp_columns' = <<>>
    /\ IF Len(Strip(TextStr(raw_data))) < MinDataLen
       THEN /\ vp_results' = Append(vp_results, NotVisualizable("Insufficient data"))
            /\ vp_pc' = "return"
       ELSE /\ vp_results' = vp_results
            /\ vp_pc' = "bullet"
    /\ UNCHANGED <<clock, avars, qvars, fvars, tvars, hvars>>

\* Pattern 1: markdown bullet list, every value through _parse_number
VpBullet ==
    /\ vp_pc = "bullet"
    /\ LET bullet_matches == BulletMatches(raw_data)
           parsed == Parsed(bullet_matches, "parse_number")
           new == Appended(parsed, 0, "strip")
       IN  /\ vp_rows' = new
           /\ vp_columns' = IF bullet_matches # <<>> THEN <<"categoria", "valor">> ELSE vp_columns
           /\ vp_pc' = IF EscapedError(parsed) # "none" THEN "raised"
                       ELSE IF NeedMore(new) THEN "temporal" ELSE "build"
    /\ UNCHANGED <<clock, start_time, vp_results, avars, qvars, fvars, tvars, hvars>>

\* Pattern 2: temporal data; if len(rows) < 2 afterwards, the fallback
VpTemporal ==
    /\ vp_pc = "temporal"
    /\ LET temporal_matches == TemporalMatches(raw_data)
           parsed == Parsed(temporal_matches, "parse_number")
           new == vp_rows \o Appended(parsed, 0, "strip")
       IN  /\ vp_rows' = new
           /\ vp_columns' = IF temporal_matches # <<>> THEN <<"periodo", "total">> ELSE vp_columns
           /\ vp_pc' = IF EscapedError(parsed) # "none" THEN "raised"
                       ELSE IF NeedMore(new) THEN "fallback" ELSE "build"
    /\ UNCHANGED <<clock, start_time, vp_results, avars, qvars, fvars, tvars, hvars>>

\* extract_visualization_from_text of viz_parser.py: grouped records only;
\* it hands _build_viz_config the time of its own return as start_time
VpFallback ==
    /\ vp_pc = "fallback"
    /\ LET months == FbMonths(raw_data)
           values == FbValues(raw_data)
           pairs == IF months # <<>> /\ values # <<>> /\ Len(months) = Len(values)
                    THEN Zip(months, values) ELSE <<>>
           parsed == Parsed(pairs, "parse_number")
           new == Appended(parsed, 0, "raw")
       IN  /\ vp_rows' = new
           /\ IF EscapedError(parsed) # "none"
              THEN /\ vp_pc' = "raised"
                   /\ UNCHANGED <<vp_columns, vp_results, start_time>>
              ELSE IF NeedMore(new)
              THEN /\ vp_results' = Append(vp_results, NotVisualizable("Could not extract data"))
                   /\ vp_pc' = "return"
                   /\ UNCHANGED <<vp_columns, start_time>>
              ELSE /\ vp_columns' = <<"periodo", "total">>
                   /\ start_time' = clock
                   /\ vp_pc' = "build"
                   /\ vp_results' = vp_results
    /\ UNCHANGED <<clock, avars, qvars, fvars, tvars, hvars>>

\* return _build_viz_config(rows, columns, question, start_time); the sort
\* is done in place on the local list
VpBuild ==
    /\ vp_pc = "build"
    /\ LET config == build_viz_config(vp_rows, vp_columns, question, start_time, clock)
       IN  /\ vp_rows' = SortedFor(config.type, vp_rows)
           /\ vp_results' = Append(vp_results, config)
    /\ vp_pc' = "return"
    /\ UNCHANGED <<clock, start_time, vp_columns, avars, qvars, fvars, tvars, hvars>>

\* the caller has the result and calls again with the same arguments
VpAgain ==
    /\ vp_pc = "return"
    /\ vp_pc' = IF Len(vp_results) < 2 THEN "call" ELSE "done"
    /\ UNCHANGED <<clock, start_time, vp_rows, vp_columns, vp_results, avars, qvars, fvars, tvars, hvars>>

----------------------------------------------------------------------------
(* Concurrent calls.  Every call has a frame of its own: its arguments,    *)
(* its position and its locals.  A step runs one block of one call.        *)

\* the calls that run at the same time
NThreads == 2

\* where a function starts
EntryOf(fn) ==
    CASE fn = "analyze_visualization" -> "call"
      [] fn = "extract_visualization_from_text" -> "fb_grouped"
      [] fn = "generate_conclusion" -> "data"
      [] fn = "sanitize_text_for_json" -> "text"
      [] fn = "sanitize_dict_for_json" -> "dict"

\* the frame of fn(arg, question) as the call begins: rows = [], columns = []
NewFrame(fn, arg, q) ==
    [fn |-> fn, arg |-> arg, question |-> q, pc |-> EntryOf(fn),
     rows |-> <<>>, columns |-> <<>>, fb_rows |-> <<>>, result |-> NoResult, exc |-> "none"]

\* the call is over: it returned or an exception escaped it
Over(fr) == fr.pc \in {"return", "raised"}

\* the end of a loop over candidates: on to the next block, or out of the
\* call with the exception the loop did not catch
Advance(fr, parsed, next) ==
    IF EscapedError(parsed) # "none"
    THEN [fr EXCEPT !.pc = "raised", !.exc = EscapedError(parsed)]
    ELSE [fr EXCEPT !.pc = next]

\* one block of the function, on the frame of the call that runs it
Block(fr) ==
    CASE fr.pc = "call" ->
             IF Len(Strip(TextStr(fr.arg))) < MinDataLen
             THEN [fr EXCEPT !.result = NotVisualizable("Insufficient data"), !.pc = "return"]
             ELSE [fr EXCEPT !.pc = "bullet"]
      [] fr.pc = "bullet" ->
             LET bullet_matches == BulletMatches(fr.arg)
                 parsed == Parsed(bullet_matches, "bullet")
                 new == fr.rows \o Appended(parsed, 0, "strip")
             IN  Advance([fr EXCEPT !.rows = new,
                                    !.columns = IF bullet_matches # <<>>
                                                THEN <<"categoria", "valor">> ELSE @],
                         parsed, IF NeedMore(new) THEN "temporal" ELSE "build")
      [] fr.pc = "temporal" ->
             LET temporal_matches == TemporalMatches(fr.arg)
                 parsed == Parsed(temporal_matches, "plain")
                 new == fr.rows \o Appended(parsed, 0, "strip")
             IN  Advance([fr EXCEPT !.rows = new,
                                    !.columns = IF temporal_matches # <<>>
                                                THEN <<"periodo", "total">> ELSE @],
                         parsed, IF NeedMore(new) THEN "simple" ELSE "build")
      [] fr.pc = "simple" ->
             LET parsed == Parsed(SimpleMatches(fr.arg), "plain")
                 added == Appended(parsed, SmallValue, "simple")
                 new == fr.rows \o added
             IN  Advance([fr EXCEPT !.rows = new,
                                    !.columns = IF added # <<>> /\ @ = <<>>
                                                THEN <<"nombre", "valor">> ELSE @],
                         parsed, IF NeedMore(new) THEN "fb_grouped" ELSE "build")
      [] fr.pc = "build" ->
             LET cfg == viz_config(fr.rows, fr.columns, fr.question)
             IN  [fr EXCEPT !.result = cfg, !.rows = SortedFor(cfg.type, @), !.pc = "return"]
      [] fr.pc = "fb_grouped" ->
             LET months == FbMonths(fr.arg)
                 values == FbValues(fr.arg)
                 pairs == IF months # <<>> /\ values # <<>> /\ Len(months) = Len(values)
                          THEN Zip(months, values) ELSE <<>>
                 parsed == Parsed(pairs, "fb_month")
                 new == Appended(parsed, 0, "raw")
             IN  Advance([fr EXCEPT !.fb_rows = new], parsed,
                         IF NeedMore(new) THEN "fb_bullet" ELSE "fb_build")
      [] fr.pc = "fb_bullet" ->
             LET parsed == Parsed(BulletMatches(fr.arg), "fb_bullet")
                 new == fr.fb_rows \o Appended(parsed, SmallValue, "strip")
             IN  Advance([fr EXCEPT !.fb_rows = new], parsed,
                         IF NeedMore(new) THEN "fb_simple" ELSE "fb_build")
      [] fr.pc = "fb_simple" ->
             LET parsed == Parsed(FbSimpleMatches(fr.arg), "fb_simple")
                 new == fr.fb_rows \o Appended(parsed, SmallValue, "strip")
             IN  Advance([fr EXCEPT !.fb_rows = new,
                                    !.result = IF EscapedError(parsed) = "none" /\ NeedMore(new)
                                               THEN NotVisualizable("Could not extract sufficient data points")
                                               ELSE @],
                         parsed, IF NeedMore(new) THEN "return" ELSE "fb_build")
      [] fr.pc = "fb_build" ->
             LET cfg == fallback_viz(fr.fb_rows, fr.question)
             IN  [fr EXCEPT !.result = cfg, !.fb_rows = SortedFor(cfg.type, @), !.pc = "return"]
      [] fr.pc = "text" ->
             [fr EXCEPT !.result = sanitize_text_for_json(fr.arg), !.pc = "return"]
      [] fr.pc = "dict" ->
             [fr EXCEPT !.result = sanitize_dict_for_json(fr.arg), !.pc = "return"]
      [] fr.pc = "data" ->
             LET r == generate_conclusion(fr.arg)
             IN  [fr EXCEPT !.result = r.v,
                            !.exc = r.err,
                            !.pc = IF r.err = "none" THEN "return" ELSE "raised"]
      [] OTHER -> fr

\* the lists "rows" kept in one place for all calls: every call works on
\* the lists of the first
LocalsShared(fs, t) == [fs[t] EXCEPT !.rows = fs[1].rows, !.fb_rows = fs[1].fb_rows]

\* what a block of call t works on: the frame of call t, whose lists were
\* created by that call (rows = [], columns = [])
Locals(fs, t) == fs[t]

\* call t runs its next block
Run(t) ==
    /\ t \in DOMAIN frames
    /\ ~Over(frames[t])
    /\ frames' = [frames EXCEPT ![t] = Block(Locals(frames, t))]
    /\ UNCHANGED <<sql_agent, avars, qvars, fvars, vpvars, hvars>>

----------------------------------------------------------------------------
(* The inputs: every text of up to MaxLines catalogue lines, generated     *)
(* record lists of up to MaxRecords records, and three questions.          *)

STR == [provA   |-> <<80, 82, 79, 86, 69, 69, 68, 79, 82, 32, 65>>,  \* "PROVEEDOR A"
        provB   |-> <<80, 82, 79, 86, 69, 69, 68, 79, 82, 32, 66>>,  \* "PROVEEDOR B"
        provC   |-> <<80, 82, 79, 86, 69, 69, 68, 79, 82, 32, 67>>,  \* "PROVEEDOR C"
        desc    |-> <<68, 69, 83, 67, 85, 69, 78, 84, 79>>,          \* "DESCUENTO"
        error   |-> <<69, 82, 82, 79, 82>>,                          \* "ERROR"
        ventas  |-> <<86, 101, 110, 116, 97, 115>>,                  \* "Ventas"
        compras |-> <<67, 111, 109, 112, 114, 97, 115>>,             \* "Compras"
        m202501 |-> <<50, 48, 50, 53, 45, 48, 49>>,                  \* "2025-01"
        m202503 |-> <<50, 48, 50, 53, 45, 48, 51>>,                  \* "2025-03"
        m202307 |-> <<50, 48, 50, 51, 45, 48, 55>>,                  \* "2023-07"
        m202308 |-> <<50, 48, 50, 51, 45, 48, 56>>,                  \* "2023-08"
        scalar  |-> <<69, 108, 32, 116, 111, 116, 97, 108, 32, 101, 115, 32, 52, 50>>]
                                                                      \* "El total es 42"

NUM == [us7     |-> <<49, 44, 50, 51, 52, 44, 53, 54, 55>>,          \* "1,234,567"
        us6     |-> <<57, 56, 55, 44, 54, 53, 52>>,                  \* "987,654"
        us6b    |-> <<52, 53, 54, 44, 55, 56, 57>>,                  \* "456,789"
        usFrac  |-> <<49, 44, 50, 51, 52, 46, 53, 54>>,              \* "1,234.56"
        zero    |-> <<48>>,                                          \* "0"
        broken  |-> <<49, 44, 50, 46, 51, 46, 52>>,                  \* "1,2.3.4"
        eu100   |-> <<49, 48, 48, 46, 48, 48, 48>>,                  \* "100.000"
        euFrac  |-> <<49, 49, 49, 46, 56, 56, 57, 44, 53, 48>>,      \* "111.889,50"
        n500    |-> <<53, 48, 48>>,                                  \* "500"
        n700    |-> <<55, 48, 48>>,                                  \* "700"
        eu7     |-> <<49, 46, 50, 51, 52, 46, 53, 54, 55>>,          \* "1.234.567"
        eu7b    |-> <<49, 46, 51, 52, 53, 46, 54, 55, 56>>]          \* "1.345.678"

Catalogue ==
    { Line("bullet", STR.provA, NUM.us7),
      Line("bullet", STR.provC, NUM.usFrac),
      Line("bullet", STR.desc, NUM.zero),
      Line("bullet", STR.error, NUM.broken),
      Line("grouped", STR.m202501, NUM.eu100),
      Line("record", STR.m202307, NUM.euFrac),
      Line("record", STR.m202308, NUM.n500),
      Line("simple", STR.ventas, NUM.eu7),
      Line("trailing", STR.compras, NUM.eu7b),
      Line("month", STR.m202503, <<>>),
      Line("total", <<>>, NUM.n700),
      Line("noise", STR.scalar, <<>>) }

ShortTexts == UNION {[1..n -> Catalogue] : n \in 0..MaxLines}

\* "YYYY-MM"
Period(y, m) == IntStr(y) \o MonthSuffix(m)

\* distinct values between 5000 and 9000, in no order of the record number
LongValue(i) == 5000 + ((i * 7) % 40) * 100 + i

LongLine(family, i) ==
    CASE family = "bullets"  -> Line("bullet", <<80>> \o IntStr(i), IntStr(LongValue(i)))
      [] family = "grouped"  -> Line("grouped", Period(2025 + ((i - 1) \div 12), ((i - 1) % 12) + 1),
                                     IntStr(LongValue(i)))
      [] family = "records"  -> Line("record", Period(2025 + ((i - 1) \div 12), ((i - 1) % 12) + 1),
                                     IntStr(LongValue(i)))
      [] OTHER               -> Line("record", Period(1990 + i, 7), IntStr(LongValue(i)))

\* n records, the latest first
LongText(family, n) == [i \in 1..n |-> LongLine(family, n + 1 - i)]

\* the list lengths on either side of each threshold of the code
LongSizes ==
    {n \in 2..MaxRecords :
        \/ n = MaxRecords
        \/ \E t \in {PieMaxItems, FbTopThreshold, MaxDisplay, LineMaxDisplay} : n \in {t, t + 1}}

LongTexts ==
    {LongText(f, n) : f \in {"bullets", "grouped", "records", "yearly"}, n \in LongSizes}

\* three bold bullet items: PROVEEDOR A, B, C
Scenario1 ==
    << Line("bullet", STR.provA, NUM.us7),
       Line("bullet", STR.provB, NUM.us6),
       Line("bullet", STR.provC, NUM.us6b) >>

\* every numeric literal of up to MaxLitLen characters over 1 5 . , as the
\* value of a bullet item that follows PROVEEDOR A
Literals == UNION {[1..n -> {49, 53, CH.DOT, CH.COMMA}] : n \in 1..MaxLitLen}

LiteralTexts ==
    { << Line("bullet", STR.provA, NUM.us7), Line("bullet", STR.provC, lit) >> :
        lit \in Literals }

\* an amount beyond the doubles: 310 digits and a decimal comma
HugeAmount == [i \in 1..310 |-> 49] \o <<CH.COMMA, 53>>
\* an integer beyond the doubles: 310 digits
HugeInt == [i \in 1..310 |-> 49]

\* amounts beyond the doubles, in a bullet list and in grouped records
OverflowTexts ==
    { << Line("bullet", STR.provA, NUM.us7), Line("bullet", STR.provC, HugeAmount) >>,
      << Line("record", STR.m202307, HugeAmount), Line("record", STR.m202308, HugeAmount) >> }

\* three bold bullet items, one of them labelled with a month
KeywordTexts ==
    { << Line("bullet", STR.provA, NUM.us7), Line("bullet", STR.m202501, NUM.us6),
         Line("bullet", STR.provC, NUM.us6b) >> }

\* labels around the limit of the simple-line strategy: longer than the
\* limit, and with a space where the cut falls
LongLabel(c) == [i \in 1..(MaxLabelLen + 10) |-> c]
SpaceAtCut == [i \in 1..(MaxLabelLen - 1) |-> 97] \o <<CH.SPACE, 98, 98, 98>>

\* simple lines with such labels, with and without a trailing currency
LongLabelTexts ==
    { << Line("simple", LongLabel(97), NUM.eu7), Line("simple", LongLabel(98), NUM.eu7b) >>,
      << Line("simple", SpaceAtCut, NUM.eu7), Line("simple", STR.ventas, NUM.eu7b) >>,
      << Line("trailing", LongLabel(97), NUM.eu7), Line("trailing", LongLabel(98), NUM.eu7b) >> }

\* the question "top proveedores"
TopProveedores == <<116, 111, 112, 32, 112, 114, 111, 118, 101, 101, 100, 111, 114, 101, 115>>

Questions ==
    { <<116, 111, 112, 32, 112, 114, 111, 118, 101, 101, 100, 111, 114, 101, 115>>,
                                                             \* "top proveedores"
      <<116, 101, 110, 100, 101, 110, 99, 105, 97, 32, 109, 101, 110, 115, 117, 97, 108>>,
                                                             \* "tendencia mensual"
      <<118, 101, 110, 116, 97, 115, 32, 112, 111, 114, 32, 109, 101, 115>> }
                                                             \* "ventas por mes"

Init ==
    /\ raw_data \in ShortTexts \cup LongTexts \cup LiteralTexts \cup OverflowTexts
                    \cup KeywordTexts \cup LongLabelTexts \cup {Scenario1}
    /\ question \in Questions
    /\ pc = "call"
    /\ rows = <<>>
    /\ columns = <<>>
    /\ fb_rows = <<>>
    /\ result = NoResult
    /\ exc = "none"
    /\ agent = NoAgent
    /\ qpc = "idle"
    /\ response = NoResponse
    /\ wire = <<>>
    /\ NoHelperCall
    /\ NoOtherCall

Next ==
    \/ QuickSkip
    \/ BulletStrategy
    \/ TemporalStrategy
    \/ SimpleStrategy
    \/ BuildConfig
    \/ FbGroupedStrategy
    \/ FbBulletStrategy
    \/ FbSimpleStrategy
    \/ FbBuildConfig

Spec == Init /\ [][Next]_vars

----------------------------------------------------------------------------
(* The inputs of query_database: the question, and what the SQL agent      *)
(* does when it is invoked.                                                *)

QSTR == [quoted  |-> <<100, 105, 106, 111, 32, 34, 104, 111, 108, 97, 34, 32, 92, 32, 97, 7, 98,
          32, 60, 60, 60, 71, 69, 78, 69, 82, 65, 84, 73, 86, 69, 95, 66, 73, 95, 69, 78, 68, 62,
          62, 62, 32, 233, 120, 105, 116, 111, 32, 8364>>,
         refused |-> <<99, 111, 110, 110, 101, 99, 116, 105, 111, 110, 32, 114, 101, 102, 117, 115,
          101, 100>>,
         boom    |-> <<98, 111, 111, 109, 32, 34, 120, 34, 10, 108, 105, 110, 101, 50, 32, 233>>,
         askq    |-> <<118, 101, 110, 116, 97, 115, 32, 34, 112, 111, 114, 34, 32, 97, 241, 111,
          92, 110, 92, 116, 13, 10, 102, 105, 110, 10, 10, 10, 10, 121, 97>>,
         schemaTool |-> <<115, 113, 108, 95, 100, 98, 95, 115, 99, 104, 101, 109, 97>>,
         queryTool  |-> <<115, 113, 108, 95, 100, 98, 95, 113, 117, 101, 114, 121>>,
         otherTool  |-> <<115, 113, 108, 95, 100, 98, 95, 99, 104, 101, 99, 107, 101, 114>>,
         select  |-> <<83, 69, 76, 69, 67, 84, 32, 34, 109, 101, 115, 34, 44, 32, 83, 85, 77, 40,
          116, 111, 116, 97, 108, 41, 32, 70, 82, 79, 77, 32, 99, 111, 109, 112, 114, 97, 115>>,
         tables  |-> <<91, 40, 39, 50, 48, 50, 53, 45, 48, 49, 39, 44, 32, 49, 48, 48, 41, 93>>]

Answers ==
    { Scenario1,
      << Line("bullet", STR.provA, NUM.us7), Line("bullet", STR.provC, NUM.usFrac) >>,
      << Line("record", STR.m202307, HugeAmount), Line("record", STR.m202308, HugeAmount) >>,
      << Line("record", STR.m202307, NUM.euFrac), Line("record", STR.m202308, NUM.n500) >>,
      << Line("simple", STR.ventas, NUM.eu7), Line("trailing", STR.compras, NUM.eu7b) >>,
      << Line("grouped", STR.m202501, NUM.eu100), Line("month", STR.m202503, <<>>),
         Line("total", <<>>, NUM.n700) >>,
      << Line("simple", STR.ventas, HugeInt) >>,
      << Line("noise", QSTR.quoted, <<>>) >>,
      << Line("noise", STR.scalar, <<>>) >>,
      <<>>,
      LongText("bullets", MaxDisplay + 1),
      LongText("records", FbTopThreshold + 1) }

StepLists ==
    { <<>>,
      << [tool |-> QSTR.schemaTool, query |-> <<>>, observation |-> QSTR.tables],
         [tool |-> QSTR.queryTool, query |-> QSTR.select,
          observation |-> [i \in 1..(ObsPreviewLen + 1) |-> 120]],
         [tool |-> QSTR.queryTool, query |-> QSTR.select, observation |-> QSTR.tables],
         [tool |-> QSTR.otherTool, query |-> <<>>, observation |-> <<>>] >> }

Agents ==
    { [raises |-> FALSE, message |-> <<>>, output |-> a, steps |-> st] :
          a \in Answers, st \in StepLists }
    \cup { [raises |-> TRUE, message |-> m, output |-> <<>>, steps |-> <<>>] :
          m \in {QSTR.refused, QSTR.boom, QSTR.quoted} }

QQuestions ==
    { <<116, 111, 112, 32, 112, 114, 111, 118, 101, 101, 100, 111, 114, 101, 115>>,
      QSTR.askq }

QInit ==
    /\ raw_data = <<>>
    /\ question \in QQuestions
    /\ pc = "idle"
    /\ rows = <<>>
    /\ columns = <<>>
    /\ fb_rows = <<>>
    /\ result = NoResult
    /\ exc = "none"
    /\ agent \in Agents
    /\ qpc = "invoke"
    /\ response = NoResponse
    /\ wire = <<>>
    /\ NoHelperCall
    /\ NoOtherCall

QNext ==
    \/ Invoke
    \/ QuickSkip
    \/ BulletStrategy
    \/ TemporalStrategy
    \/ SimpleStrategy
    \/ BuildConfig
    \/ FbGroupedStrategy
    \/ FbBulletStrategy
    \/ FbSimpleStrategy
    \/ FbBuildConfig
    \/ Respond
    \/ Except

QSpec == QInit /\ [][QNext]_vars

----------------------------------------------------------------------------
(* The inputs of sanitize_text_for_json: every string of up to MaxTextLen  *)
(* characters over NUL, BEL, LF, CR, backslash, "n" and "t".               *)

TextAlphabet == {0, 7, CH.NL, 13, 92, 110, 116}

Texts == UNION {[1..n -> TextAlphabet] : n \in 0..MaxTextLen}

TextInit ==
    /\ NoMainCall
    /\ NoOtherCall
    /\ fpc = "text"
    /\ in_text \in Texts
    /\ out_text = <<>>
    /\ in_obj = NoResponse
    /\ out_obj = NoResponse
    /\ in_data = NoResponse
    /\ out_conclusion = <<>>

TextNext == SanitizeText

TextSpec == TextInit /\ [][TextNext]_vars

----------------------------------------------------------------------------
(* The inputs of sanitize_dict_for_json: scalars, lists and dicts of       *)
(* scalars, and dicts and lists that hold a list or a dict.                *)

DSTR == [dirty |-> <<97, 13, 10, 98, 7, 92, 110, 99>>,     \* "a\r\nb" BEL "\n" (as text) "c"
         plain |-> <<104, 111, 108, 97>>,                  \* "hola"
         key   |-> <<107>>,                                \* "k"
         dirtyKey |-> <<107, 7, 92, 110>>]                 \* "k" BEL "\n" (as text)

\* the scalars: a string the cleaning changes, one it keeps, an int, a
\* float, a bool, None; and two values that hold a string one level down
LeafAt(i) ==
    CASE i = 1 -> JStr(DSTR.dirty)
      [] i = 2 -> JStr(DSTR.plain)
      [] i = 3 -> JNum(PyInt(7))
      [] i = 4 -> JNum([c |-> (3 * Scale) \div 2, f |-> TRUE])
      [] i = 5 -> JBool(TRUE)
      [] i = 6 -> JNull
      [] i = 7 -> JArr(<<JStr(DSTR.dirty), JNull>>)
      [] i = 8 -> JObj(<< <<DSTR.dirtyKey, JStr(DSTR.dirty)>> >>)

Keys == {DSTR.key, DSTR.dirtyKey}

\* a scalar, a list of up to MaxItems values, a dict of one or two entries
Obj(shape, n, f, k) ==
    CASE shape = "leaf" -> LeafAt(f[1])
      [] shape = "list" -> JArr([i \in 1..n |-> LeafAt(f[i])])
      [] shape = "dict1" -> JObj(<< <<k, LeafAt(f[1])>> >>)
      [] shape = "dict2" -> JObj(<< <<DSTR.dirtyKey, LeafAt(f[1])>>, <<DSTR.key, LeafAt(f[2])>> >>)

DictInit ==
    /\ NoMainCall
    /\ NoOtherCall
    /\ fpc = "dict"
    /\ in_text = <<>>
    /\ out_text = <<>>
    /\ \E shape \in {"leaf", "list", "dict1", "dict2"}, n \in 0..MaxItems, k \in Keys :
           \E f \in [1..MaxItems -> 1..8] : in_obj = Obj(shape, n, f, k)
    /\ out_obj = NoResponse
    /\ in_data = NoResponse
    /\ out_conclusion = <<>>

DictNext == SanitizeDict

DictSpec == DictInit /\ [][DictNext]_vars

----------------------------------------------------------------------------
(* The inputs of generate_conclusion: the empty dict, dicts without a rows *)
(* key, dicts whose rows are a list of 0..MaxDataRows rows, and dicts      *)
(* whose rows are no list.                                                 *)

DataRow(i) == JArr(<<JStr(Period(2023, 1 + (i % 12))), JNum(PyInt(LongValue(i)))>>)

Columns == JArr(<<JStr(Codes("periodo")), JStr(Codes("total"))>>)

\* what stands under the key rows when it is no list
OddRows(i) ==
    CASE i = 1 -> JNum(PyInt(5))
      [] i = 2 -> JNum(PyInt(0))
      [] i = 3 -> JBool(TRUE)
      [] i = 4 -> JBool(FALSE)
      [] i = 5 -> JNull
      [] i = 6 -> JStr(<<97, 98, 99>>)
      [] i = 7 -> JStr(<<>>)
      [] i = 8 -> JObj(<< <<LIT.rows, JArr(<<>>)>> >>)

Data(shape, n, with_columns) ==
    LET cols == IF with_columns THEN << <<LIT.columns, Columns>> >> ELSE <<>>
    IN  CASE shape = "empty" -> JObj(<<>>)
          [] shape = "no_rows" -> JObj(<< <<LIT.columns, Columns>> >>)
          [] shape = "list" -> JObj(cols \o << <<LIT.rows, JArr([i \in 1..n |-> DataRow(i)])>> >>)
          [] shape = "odd" -> JObj(cols \o << <<LIT.rows, OddRows(1 + (n % 8))>> >>)

ConclusionInit ==
    /\ NoMainCall
    /\ NoOtherCall
    /\ fpc = "data"
    /\ in_text = <<>>
    /\ out_text = <<>>
    /\ in_obj = NoResponse
    /\ out_obj = NoResponse
    /\ \E shape \in {"empty", "no_rows", "list", "odd"}, n \in 0..MaxDataRows, c \in BOOLEAN :
           in_data = Data(shape, n, c)
    /\ out_conclusion = <<>>

ConclusionNext == Conclude

ConclusionSpec == ConclusionInit /\ [][ConclusionNext]_vars

----------------------------------------------------------------------------
(* Two calls of analyze_visualization of app_utils/viz_parser.py with the  *)
(* same arguments, one after the other.                                    *)

VpTexts ==
    {t \in ShortTexts : Len(t) <= 2} \cup KeywordTexts
        \cup {Scenario1, LongText("bullets", PieMaxItems + 1)}

VpInit ==
    /\ raw_data \in VpTexts
    /\ question \in Questions
    /\ pc = "idle"
    /\ rows = <<>>
    /\ columns = <<>>
    /\ fb_rows = <<>>
    /\ result = NoResult
    /\ exc = "none"
    /\ agent = NoAgent
    /\ qpc = "idle"
    /\ response = NoResponse
    /\ wire = <<>>
    /\ NoHelperCall
    /\ clock = 0
    /\ vp_pc = "call"
    /\ start_time = 0
    /\ vp_rows = <<>>
    /\ vp_columns = <<>>
    /\ vp_results = <<>>
    /\ frames = <<>>
    /\ sql_agent = "None"
    /\ NoHfCall

VpNext == Tick \/ VpCall \/ VpBullet \/ VpTemporal \/ VpFallback \/ VpBuild \/ VpAgain

VpSpec == VpInit /\ [][VpNext]_vars

----------------------------------------------------------------------------
(* Calls that run concurrently, each on arguments of its own.              *)

\* two grouped records whose month and total are parted by a count
TwoRecords == << Line("record", STR.m202307, NUM.euFrac), Line("record", STR.m202308, NUM.n500) >>

\* the calls a thread may make
Call(i) ==
    CASE i = 1 -> NewFrame("analyze_visualization", Scenario1, TopProveedores)
      [] i = 2 -> NewFrame("analyze_visualization",
                           << Line("bullet", STR.provA, NUM.us7),
                              Line("bullet", STR.m202501, NUM.us6),
                              Line("bullet", STR.provC, NUM.us6b) >>, TopProveedores)
      [] i = 3 -> NewFrame("analyze_visualization", TwoRecords, TopProveedores)
      [] i = 4 -> NewFrame("extract_visualization_from_text", TwoRecords, TopProveedores)
      [] i = 5 -> NewFrame("generate_conclusion", Data("list", 2, TRUE), TopProveedores)
      [] i = 6 -> NewFrame("sanitize_text_for_json", <<CH.NL, CH.NL, 7, CH.NL>>, <<>>)
      [] OTHER -> NewFrame("sanitize_dict_for_json",
                           Obj("dict1", 1, [j \in 1..MaxItems |-> 1], DSTR.key), <<>>)

CallIds == 1..7

ConcurrentInit ==
    /\ NoMainCall
    /\ NoHelperCall
    /\ clock = 0
    /\ vp_pc = "idle"
    /\ start_time = 0
    /\ vp_rows = <<>>
    /\ vp_columns = <<>>
    /\ vp_results = <<>>
    /\ \E f \in [1..NThreads -> CallIds] : frames = [t \in 1..NThreads |-> Call(f[t])]
    /\ sql_agent \in {"None", "created"}
    /\ NoHfCall

ConcurrentNext == \E t \in 1..NThreads : Run(t)

ConcurrentSpec == ConcurrentInit /\ [][ConcurrentNext]_vars

----------------------------------------------------------------------------
(* The calls of the Hugging Face tools: sequences of calls and clock       *)
(* advances chosen freely among a few arguments, and sequences of calls    *)
(* with ever new arguments that fill one cache beyond its maxsize.         *)

\* no getter is called concurrently
NoGetter ==
    /\ singleton = [name \in Singletons |-> 0]
    /\ constructed = [name \in Singletons |-> 0]
    /\ getters = <<>>

HfInit ==
    /\ NoMainCall
    /\ NoHelperCall
    /\ clock = 0
    /\ vp_pc = "idle"
    /\ start_time = 0
    /\ vp_rows = <<>>
    /\ vp_columns = <<>>
    /\ vp_results = <<>>
    /\ frames = <<>>
    /\ sql_agent = "None"
    /\ hf_now \in {0, CACHE_TTL_SECONDS - 1}
    /\ cache = [fn \in CachedFns |-> <<>>]
    /\ requests = [fn \in CachedFns |-> <<>>]
    /\ last_call = NoCall
    /\ hf_plan \in {[kind |-> "mixed"]}
                   \cup {[kind |-> "fill", tool |-> tool] : tool \in HfTools}
    /\ hf_steps = 0
    /\ NoGetter

HfNext == HfCall \/ HfTick

HfSpec == HfInit /\ [][HfNext]_vars

----------------------------------------------------------------------------
(* Threads that call get_hf_client and get_sql_agent at the same time.     *)

SingletonInit ==
    /\ NoMainCall
    /\ NoHelperCall
    /\ clock = 0
    /\ vp_pc = "idle"
    /\ start_time = 0
    /\ vp_rows = <<>>
    /\ vp_columns = <<>>
    /\ vp_results = <<>>
    /\ frames = <<>>
    /\ sql_agent = "None"
    /\ hf_now = 0
    /\ cache = [fn \in CachedFns |-> <<>>]
    /\ requests = [fn \in CachedFns |-> <<>>]
    /\ last_call = NoCall
    /\ hf_plan = [kind |-> "none"]
    /\ hf_steps = 0
    /\ singleton = [name \in Singletons |-> 0]
    /\ constructed = [name \in Singletons |-> 0]
    /\ \E f \in [1..NThreads -> Singletons] :
           getters = [t \in 1..NThreads |-> NewGetter(f[t], 1)]

SingletonNext == \E t \in 1..NThreads : GetStep(t)

SingletonSpec == SingletonInit /\ [][SingletonNext]_vars

----------------------------------------------------------------------------
(* Properties.                                                             *)

Returned == pc = "return"

\* the call returned a visualizable configuration
Viz == Returned /\ result.visualizable

ViaFallback == "fallback" \in DOMAIN result

\* every row the committing pass extracted, as the pass left its list
Extracted == IF ViaFallback THEN fb_rows ELSE rows

Shown == result.data.rows

SortedByLabel(rs) == \A i \in 1..(Len(rs) - 1) : StrLeq(rs[i][1], rs[i + 1][1])

SortedByValueDesc(rs) == \A i \in 1..(Len(rs) - 1) : rs[i][2].c >= rs[i + 1][2].c

CouldNotExtract == "Could not extract sufficient data points"

\* C1: a call that extracted fewer than 2 rows, in the primary chain and in
\* the fallback pass, returns visualizable=false; every visualizable result
\* has totalRecords >= 2 and at least 2 rows in data.rows.
C1_RowThreshold ==
    /\ (Returned /\ Len(rows) < 2 /\ Len(fb_rows) < 2) => ~result.visualizable
    /\ Viz => (result.totalRecords >= 2 /\ Len(Shown) >= 2)

\* one row extracted by the primary chain, none by the fallback: rejected
C1_Witness ==
    /\ Returned /\ ~result.visualizable
    /\ Len(rows) = 1 /\ Len(fb_rows) = 0
    /\ result.reason = CouldNotExtract

\* C2 (as claimed): whenever the N extracted rows exceed max_display of the
\* chart type (36 for line, 12 for pie and bar), data.rows has exactly
\* max_display entries, isTop10 is true and totalRecords is N, on either pass.
C2_TopN ==
    Viz =>
        LET N == Len(Extracted)
            max_display == IF result.type = "line" THEN LineMaxDisplay ELSE MaxDisplay
        IN  N > max_display =>
                /\ Len(Shown) = max_display
                /\ result.isTop10
                /\ result.totalRecords = N

C4_ChartTypeRule ==
    Viz =>
        LET N == Len(Extracted)
            temporal == IsTemporal(IF ViaFallback THEN fb_temporal_keywords
                                   ELSE temporal_keywords, question, Extracted)
        IN  /\ result.type = (IF temporal THEN "line" ELSE IF N <= PieMaxItems THEN "pie" ELSE "bar")
            /\ result.type = "pie" => Shown = Extracted
            /\ result.type = "bar" => SortedByValueDesc(Shown)

\* the keyword set the specification gives
spec_keywords ==
    <<KW.mes, KW.anio, KW.fecha, KW.tendencia, KW.y2024, KW.y2025, KW.y2026>>
    \o [m \in 1..12 |-> MonthSuffix(m)]

\* C5 (as claimed): whenever the lower-cased question or the stringified rows
\* contain a keyword of the fixed set, the result is of type line, whichever
\* pass produced the rows.
C5_TemporalDetection ==
    Viz => (IsTemporal(spec_keywords, question, Extracted) => result.type = "line")

\* C6: the strategies run in the order bullet, temporal, simple; a later
\* strategy and the fallback pass start only with fewer than 2 rows
\* collected; "Could not extract sufficient data points" is returned only by
\* the end of the fallback pass, with fewer than 2 rows there too.
C6_ChainGating ==
    [][ /\ pc' = "bullet" => pc = "call"
        /\ pc' = "temporal" => (pc = "bullet" /\ Len(rows') < 2)
        /\ pc' = "simple" => (pc = "temporal" /\ Len(rows') < 2)
        /\ pc' = "fb_grouped" => (pc = "simple" /\ Len(rows') < 2)
        /\ pc' = "fb_bullet" => (pc = "fb_grouped" /\ Len(fb_rows') < 2)
        /\ pc' = "fb_simple" => (pc = "fb_bullet" /\ Len(fb_rows') < 2)
        /\ pc' = "build" => (pc \in {"bullet", "temporal", "simple"} /\ Len(rows') >= 2)
        /\ (pc' = "return" /\ ~result'.visualizable /\ result'.reason = CouldNotExtract)
               => (pc = "fb_simple" /\ Len(rows') < 2 /\ Len(fb_rows') < 2)
      ]_vars

\* the chain ran to its end: one row from the primary chain, one from the
\* fallback pass, and the extraction failure returned
C6_Witness ==
    /\ Returned /\ ~result.visualizable /\ result.reason = CouldNotExtract
    /\ Len(rows) = 1 /\ Len(fb_rows) = 1

\* the rows the bullet strategy yields when a value is parsed by the
\* NumberParser rule, truncated to an integer or not
RuleRows(text, truncate) ==
    LET parsed == Parsed(BulletMatches(text), "parse_number")
        val(p) == IF truncate THEN PyTrunc(p.r).v.c ELSE p.r.v.c
        ok(p) == p.r.err = "none" /\ val(p) > 0
        kept == SelectSeq(parsed, ok)
    IN  [i \in 1..Len(kept) |-> <<Strip(kept[i].label), val(kept[i])>>]

\* the labels and values of a list of rows
Plain(rs) == [i \in 1..Len(rs) |-> <<rs[i][1], rs[i][2].c>>]

NoCandidate(text) ==
    /\ BulletMatches(text) = <<>> /\ TemporalMatches(text) = <<>> /\ SimpleMatches(text) = <<>>
    /\ FbMonths(text) = <<>> /\ FbValues(text) = <<>> /\ FbSimpleMatches(text) = <<>>

\* the blocks in the order the code reaches them
Rank(p) ==
    CASE p = "call" -> 0 [] p = "bullet" -> 1 [] p = "temporal" -> 2 [] p = "simple" -> 3
      [] p = "fb_grouped" -> 4 [] p = "fb_bullet" -> 5 [] p = "fb_simple" -> 6
      [] p = "build" -> 7 [] p = "fb_build" -> 7 [] p = "return" -> 8 [] OTHER -> 9

\* C8: no exception escapes and every step moves the call on towards its
\* return; a bullet candidate that does not parse is skipped and the
\* candidates around it are kept; a text without any candidate ends
\* visualizable=false with a reason.
C8_NoErrorEscapes ==
    /\ [](/\ exc = "none" /\ pc # "raised"
          /\ (Returned /\ NoCandidate(raw_data)) =>
                 (~result.visualizable /\ "reason" \in DOMAIN result /\ result.reason # ""))
    /\ [][ /\ Rank(pc') > Rank(pc) /\ Rank(pc') <= 8
           /\ pc = "bullet" =>
                 Len(rows') = Cardinality({i \in 1..Len(BulletMatches(raw_data)) :
                                 LET r == parse_number(BulletMatches(raw_data)[i][2])
                                 IN  r.err = "none" /\ PyTrunc(r).v.c > 0})
         ]_vars

\* a bullet item that does not parse stands between two that do: both kept
C8_Witness ==
    /\ pc = "build" /\ Len(raw_data) = 3 /\ Len(rows) = 2
    /\ raw_data[2].kind = "bullet"
    /\ ParseBulletValue(raw_data[2].value).err = "ValueError"

\* C9: every result has the keys visualizable and type; visualizable is false
\* exactly when type is "none"; a non-visualizable result has a non-empty
\* reason and no data.
C9_ResultShape ==
    Returned =>
        /\ {"visualizable", "type"} \subseteq DOMAIN result
        /\ result.visualizable \in BOOLEAN
        /\ (~result.visualizable) <=> (result.type = "none")
        /\ result.visualizable => result.type \in {"line", "pie", "bar"}
        /\ ~result.visualizable =>
               /\ "reason" \in DOMAIN result
               /\ result.reason \in {"Insufficient data", CouldNotExtract}
               /\ "data" \notin DOMAIN result

\* the quick skip of a text shorter than 30 characters
C9_Witness ==
    /\ Returned /\ ~result.visualizable
    /\ result.reason = "Insufficient data"
    /\ raw_data # <<>>

----------------------------------------------------------------------------
(* JSON as RFC 8259 defines it: the reading of a serialized value back     *)
(* into a JSON value.  Numbers are read in plain decimal notation, the one  *)
(* the encoder writes for the amounts of the model.                         *)

\* the character at position i (0 outside the string)
At(s, i) == IF i >= 1 /\ i <= Len(s) THEN s[i] ELSE 0

\* the number of consecutive backslashes that end at position i
RECURSIVE BackslashRun(_, _)
BackslashRun(s, i) == IF At(s, i) = 92 THEN 1 + BackslashRun(s, i - 1) ELSE 0

\* the quotes no backslash escapes
OpenQuotes(s) == {j \in 1..Len(s) : s[j] = 34 /\ BackslashRun(s, j - 1) % 2 = 0}

JFail == [ok |-> FALSE, v |-> JNull, next |-> 0]
JOk(v, next) == [ok |-> TRUE, v |-> v, next |-> next]

RECURSIVE SkipWs(_, _)
SkipWs(s, i) == IF At(s, i) \in {32, 9, 10, 13} THEN SkipWs(s, i + 1) ELSE i

StartsWith(s, i, word) == \A k \in 1..Len(word) : At(s, i + k - 1) = word[k]

IsHex(c) == IsDigit(c) \/ c \in 97..102 \/ c \in 65..70
HexVal(c) == IF IsDigit(c) THEN c - 48 ELSE IF c >= 97 THEN c - 87 ELSE c - 55

\* a string that opens at position i
ParseString(s, quotes, i) ==
    LET later == {j \in quotes : j > i}
    IN  IF later = {} THEN JFail
        ELSE
        LET close == CHOOSE j \in later : \A k \in later : j <= k
            esc(k) == k > i /\ k < close /\ s[k] = 92 /\ BackslashRun(s, k - 1) % 2 = 0
            arg(k) == esc(k - 1)
            hex(k) == \E d \in 2..5 : esc(k - d) /\ s[k - d + 1] = 117
            valid == \A k \in (i + 1)..(close - 1) :
                        IF esc(k)
                        THEN /\ k + 1 < close
                             /\ s[k + 1] \in {34, 92, 47, 98, 102, 110, 114, 116, 117}
                             /\ s[k + 1] = 117 =>
                                    k + 5 < close /\ \A d \in 2..5 : IsHex(s[k + d])
                        ELSE arg(k) \/ hex(k) \/ s[k] >= 32
            dec(k) == IF esc(k)
                      THEN CASE s[k + 1] = 110 -> 10
                             [] s[k + 1] = 116 -> 9
                             [] s[k + 1] = 114 -> 13
                             [] s[k + 1] = 98  -> 8
                             [] s[k + 1] = 102 -> 12
                             [] s[k + 1] = 117 ->
                                    HexVal(s[k + 2]) * 4096 + HexVal(s[k + 3]) * 256
                                    + HexVal(s[k + 4]) * 16 + HexVal(s[k + 5])
                             [] OTHER -> s[k + 1]
                      ELSE IF arg(k) \/ hex(k) THEN Dropped ELSE s[k]
        IN  IF valid
            THEN JOk(JStr(Compact([k \in 1..(close - i - 1) |-> dec(i + k)])), close + 1)
            ELSE JFail

\* the first position from i on that holds no digit
RECURSIVE DigitsEnd(_, _)
DigitsEnd(s, i) == IF IsDigit(At(s, i)) THEN DigitsEnd(s, i + 1) ELSE i

\* -?(0|[1-9]\d*)(\.\d+)?
ParseNumber(s, i) ==
    LET a == IF At(s, i) = 45 THEN i + 1 ELSE i
        b == DigitsEnd(s, a)
        c == IF At(s, b) = 46 THEN DigitsEnd(s, b + 1) ELSE b
        n == IF c > b THEN PyFloat(SubSeq(s, a, c - 1)).v ELSE PyIntOfStr(SubSeq(s, a, b - 1)).v
    IN  IF b > a /\ (s[a] = 48 => b = a + 1) /\ (c > b => c > b + 1)
        THEN JOk(JNum(IF a > i THEN [n EXCEPT !.c = 0 - @] ELSE n), c)
        ELSE JFail

RECURSIVE ParseValue(_, _, _)
RECURSIVE ParseItems(_, _, _, _)
RECURSIVE ParseMembers(_, _, _, _)

ParseValue(s, quotes, i) ==
    LET c == At(s, i)
    IN  CASE c = 34 -> ParseString(s, quotes, i)
          [] c = 91 ->
                 LET j == SkipWs(s, i + 1)
                 IN  IF At(s, j) = 93 THEN JOk(JArr(<<>>), j + 1)
                     ELSE ParseItems(s, quotes, j, <<>>)
          [] c = 123 ->
                 LET j == SkipWs(s, i + 1)
                 IN  IF At(s, j) = 125 THEN JOk(JObj(<<>>), j + 1)
                     ELSE ParseMembers(s, quotes, j, <<>>)
          [] c = 116 -> IF StartsWith(s, i, LIT.true) THEN JOk(JBool(TRUE), i + 4) ELSE JFail
          [] c = 102 -> IF StartsWith(s, i, LIT.false) THEN JOk(JBool(FALSE), i + 5) ELSE JFail
          [] c = 110 -> IF StartsWith(s, i, LIT.null) THEN JOk(JNull, i + 4) ELSE JFail
          [] IsDigit(c) \/ c = 45 -> ParseNumber(s, i)
          [] OTHER -> JFail

\* the elements of an array from position i on, behind those of acc
ParseItems(s, quotes, i, acc) ==
    LET r == ParseValue(s, quotes, i)
        j == SkipWs(s, r.next)
    IN  IF ~r.ok THEN JFail
        ELSE IF At(s, j) = 44 THEN ParseItems(s, quotes, SkipWs(s, j + 1), Append(acc, r.v))
        ELSE IF At(s, j) = 93 THEN JOk(JArr(Append(acc, r.v)), j + 1)
        ELSE JFail

\* the members of an object from position i on, behind those of acc
ParseMembers(s, quotes, i, acc) ==
    LET k == IF At(s, i) = 34 THEN ParseString(s, quotes, i) ELSE JFail
        colon == SkipWs(s, k.next)
        r == ParseValue(s, quotes, SkipWs(s, colon + 1))
        j == SkipWs(s, r.next)
        member == <<k.v.x, r.v>>
    IN  IF ~k.ok \/ At(s, colon) # 58 THEN JFail
        ELSE IF ~r.ok THEN JFail
        ELSE IF At(s, j) = 44
        THEN ParseMembers(s, quotes, SkipWs(s, j + 1), Append(acc, member))
        ELSE IF At(s, j) = 125 THEN JOk(JObj(Append(acc, member)), j + 1)
        ELSE JFail

\* the JSON value a text stands for; ok is FALSE when the text is not JSON
Loads(s) ==
    LET r == ParseValue(s, OpenQuotes(s), SkipWs(s, 1))
    IN  IF r.ok /\ SkipWs(s, r.next) = Len(s) + 1 THEN r ELSE JFail

\* query_database has returned
Answered == qpc = "return"

\* the string is the start line, a body without a line break, the end line
Framed(w) ==
    /\ Len(w) >= Len(LIT.start) + Len(LIT.end) + 2
    /\ SubSeq(w, 1, Len(LIT.start) + 1) = LIT.start \o <<CH.NL>>
    /\ SubSeq(w, Len(w) - Len(LIT.end), Len(w)) = <<CH.NL>> \o LIT.end
    /\ ~HasCh(SubSeq(w, Len(LIT.start) + 2, Len(w) - Len(LIT.end) - 1), CH.NL)

Body(w) == SubSeq(w, Len(LIT.start) + 2, Len(w) - Len(LIT.end) - 1)

\* C10: whatever query_database returns is the start line, one line that
\* is valid JSON and reads back as the response object, and the end line.
C10_WireFraming ==
    Answered =>
        /\ Framed(wire)
        /\ LET back == Loads(Body(wire)) IN back.ok /\ back.v = response

\* a response whose rows hold an infinite amount
HasInfRow ==
    /\ response.x # <<>>
    /\ response.x[1][2].x # <<>>
    /\ \E i \in 1..Len(response.x[1][2].x[2][2].x) :
           IsInf(response.x[1][2].x[2][2].x[i].x[2].x)

\* the framing and the reading back of every response that holds no
\* infinite amount, on the success path and on the error path
FiniteWireFraming ==
    (Answered /\ ~HasInfRow) =>
        /\ Framed(wire)
        /\ LET back == Loads(Body(wire)) IN back.ok /\ back.v = response

----------------------------------------------------------------------------
(* query_database: the error path.                                         *)

\* the rewriting of the amounts meets a number beyond the doubles
FormatOverflows ==
    \E i \in 1..Len(agent.output) :
        LET v == sanitize_text_for_json(agent.output[i].value)
        IN  /\ IsAmerican(v) \/ IsRawDecimal(v) \/ IsLargeInt(v)
            /\ Len(Significant(Remove(v, CH.COMMA))) > 309

\* a step of the try block raises: the agent, or the rewriting of the amounts
StepRaises == agent.raises \/ FormatOverflows

\* C11: when a step of query_database raises, the call still returns: the
\* except clause is left only by returning, and what is returned is the
\* fixed error object (data = {}, visualizable = false, conclusion and text
\* holding the error message, thinking = []) between the two delimiter lines.
C11_ErrorObject ==
    /\ [](Answered /\ StepRaises =>
            /\ Get(response, LIT.data) = JObj(<<>>)
            /\ Get(response, LIT.visualizable) = JBool(FALSE)
            /\ Get(response, LIT.thinking) = JArr(<<>>)
            /\ agent.raises => /\ Contains(Get(response, LIT.conclusion).x, agent.message)
                               /\ Contains(Get(response, LIT.text).x, agent.message)
            /\ ~agent.raises =>
                   \E message \in {LIT.infToInt, LIT.intTooLarge} :
                       /\ Contains(Get(response, LIT.conclusion).x, message)
                       /\ Contains(Get(response, LIT.text).x, message)
            /\ Framed(wire)
            /\ Loads(Body(wire)).ok /\ Loads(Body(wire)).v = response)
    /\ [][(qpc = "invoke" /\ StepRaises => qpc' = "except")
          /\ (qpc = "except" => qpc' = "return")]_vars

\* the agent answered, the rewriting of its amounts raised, and the error
\* object came back
C11_Witness ==
    /\ Answered /\ ~agent.raises /\ FormatOverflows
    /\ Get(response, LIT.thinking) = JArr(<<>>)
    /\ Contains(Get(response, LIT.text).x, LIT.intTooLarge)

----------------------------------------------------------------------------
(* The helper functions.                                                   *)

\* a character of 0x00-0x08, 0x0B-0x1F or 0x7F
IsRawControl(c) == c \in 0..8 \/ c \in 11..31 \/ c = 127

\* three newline characters in a row
HasNewlineRun(s) ==
    \E i \in 1..(Len(s) - 2) : s[i] = CH.NL /\ s[i + 1] = CH.NL /\ s[i + 2] = CH.NL

\* what sanitize_text_for_json returns holds no control character
NoControlLeft == fpc = "text_return" => \A i \in 1..Len(out_text) : ~IsRawControl(out_text[i])

\* C12: what sanitize_text_for_json returns holds no character of
\* 0x00-0x08, 0x0B-0x1F or 0x7F and no run of 3 or more newline characters.
C12_SanitizerPostcondition ==
    fpc = "text_return" =>
        /\ \A i \in 1..Len(out_text) : ~IsRawControl(out_text[i])
        /\ ~HasNewlineRun(out_text)

\* b is a with every string leaf cleaned: the same keys in the same order,
\* the same list lengths, every other leaf as it was
RECURSIVE Preserved(_, _)
Preserved(a, b) ==
    CASE a.t = "obj" ->
             /\ b.t = "obj" /\ Len(b.x) = Len(a.x)
             /\ \A i \in 1..Len(a.x) :
                    b.x[i][1] = a.x[i][1] /\ Preserved(a.x[i][2], b.x[i][2])
      [] a.t = "arr" ->
             /\ b.t = "arr" /\ Len(b.x) = Len(a.x)
             /\ \A i \in 1..Len(a.x) : Preserved(a.x[i], b.x[i])
      [] a.t = "str" -> b.t = "str" /\ b.x = sanitize_text_for_json(a.x)
      [] OTHER -> b.t = a.t /\ b.x = a.x

\* C13: sanitize_dict_for_json returns a value with the keys, the list
\* lengths and the element order of its argument, every string leaf cleaned
\* by sanitize_text_for_json and every other leaf unchanged; the argument
\* is not changed by the call.
C13_StructurePreserved ==
    /\ [](fpc = "dict_return" => Preserved(in_obj, out_obj))
    /\ [][in_obj' = in_obj]_vars

\* a dict with a key that holds a control character and a string value the
\* cleaning changes, and a second entry, has been walked
C13_Witness ==
    /\ fpc = "dict_return"
    /\ in_obj.t = "obj" /\ Len(in_obj.x) = 2
    /\ in_obj.x[1][1] = DSTR.dirtyKey
    /\ in_obj.x[1][2] = JStr(DSTR.dirty)
    /\ out_obj.x[1][2] # in_obj.x[1][2]
    /\ in_obj.x[2][2].t = "null"

\* the value under the key rows (an empty list if there is none)
RowsOf(d) == IF HasKey(d, LIT.rows) THEN Get(d, LIT.rows) ELSE JArr(<<>>)

\* the number of entries of a list
Entries(v) == IF v.t = "arr" THEN Len(v.x) ELSE 0

\* what the call says of a list of n rows
MessageFor(n) ==
    IF n = 0 THEN LIT.noData
    ELSE IF n = 1 THEN LIT.oneRecord
    ELSE LIT.found \o IntStr(n) \o LIT.inTotal

\* generate_conclusion on a dict whose rows, if it has any, are a list:
\* the three messages, and no exception
ConclusionOfLists ==
    (fpc \in {"data_return", "data_raised"} /\ RowsOf(in_data).t = "arr") =>
        /\ fpc = "data_return"
        /\ out_conclusion.v = MessageFor(Entries(RowsOf(in_data)))

\* C15: generate_conclusion returns the no-results message for a dict that
\* is empty, has no rows key or has an empty row list, the singular message
\* for exactly one row and the count message with N = the number of rows
\* otherwise; it raises for no dict.
C15_Conclusion ==
    /\ fpc # "data_raised"
    /\ fpc = "data_return" =>
           \/ /\ ~Truthy(RowsOf(in_data))
              /\ out_conclusion.v = LIT.noData
           \/ /\ Truthy(RowsOf(in_data))
              /\ out_conclusion.v = MessageFor(Len(RowsOf(in_data).x))

----------------------------------------------------------------------------
(* Scenarios and invariants of the extraction.                             *)

\* the text is three bold bullet items, each with a value the bullet
\* strategy reads as a positive integer
ThreePositiveBullets(t) ==
    /\ Len(t) = 3
    /\ \A i \in 1..3 : t[i].kind = "bullet"
    /\ Len(RuleRows(t, TRUE)) = 3

C16_KeywordInRows ==
    /\ Returned /\ ThreePositiveBullets(raw_data) /\ question = TopProveedores
    /\ result.type = "line"

\* C17: a line chart of N <= 36 extracted rows shows all N rows, in
\* ascending label order, whichever pass extracted them.
C17_TemporalCap ==
    (Viz /\ result.type = "line" /\ Len(Extracted) <= LineMaxDisplay) =>
        /\ Len(Shown) = Len(Extracted)
        /\ SortedByLabel(Shown)

\* the same for the rows of the primary chain only
TemporalCapPrimary ==
    (Viz /\ ~ViaFallback /\ result.type = "line" /\ Len(Extracted) <= LineMaxDisplay) =>
        /\ Len(Shown) = Len(Extracted)
        /\ SortedByLabel(Shown)

AllPositive(rs) == \A i \in 1..Len(rs) : rs[i][2].c > 0

\* C18: every row of a visualizable result has a value greater than 0, and
\* so has every row either pass collects: a candidate whose value is 0 or
\* less is never in the list whose length is compared with the threshold.
C18_PositiveValues ==
    /\ AllPositive(rows)
    /\ AllPositive(fb_rows)
    /\ Viz => AllPositive(Shown)

\* a text of three bullet items, one of them with the value 0, came back
\* with the two other rows
C18_Witness ==
    /\ Viz /\ ~ViaFallback
    /\ Len(raw_data) = 3
    /\ \E i \in 1..3 : raw_data[i] = Line("bullet", STR.desc, NUM.zero)
    /\ Len(BulletMatches(raw_data)) = 3
    /\ Len(Shown) = 2

\* How many period labels (Mes|Periodo|Fecha followed by a period) and how
\* many value labels (Total|Monto followed by an amount) the text holds.
PeriodLabels(text) == Len(FbMonths(text))
ValueLabels(text) == Len(FbValues(text))

\* C19 (as the specification states it): when the text holds different
\* numbers of period labels and value labels, the grouped-temporal strategy
\* of analyze_visualization and the one of extract_visualization_from_text
\* add no row and hand over to the next strategy of their chain.
C19_GroupedAbstains ==
    [][/\ (pc = "temporal" /\ PeriodLabels(raw_data) # ValueLabels(raw_data))
            => (rows' = rows /\ pc' = "simple")
       /\ (pc = "fb_grouped" /\ PeriodLabels(raw_data) # ValueLabels(raw_data))
            => (fb_rows' = <<>> /\ pc' = "fb_bullet")]_vars

\* C19, the part that holds: extract_visualization_from_text compares the two
\* counts and pairs nothing when they differ.
FallbackGroupedAbstains ==
    [][(pc = "fb_grouped" /\ PeriodLabels(raw_data) # ValueLabels(raw_data))
            => (fb_rows' = <<>> /\ pc' = "fb_bullet")]_vars

\* C19: analyze_visualization has paired a period with an amount although the
\* counts of the two labels differ.
PrimaryPairsOnMismatch ==
    /\ pc = "simple"
    /\ PeriodLabels(raw_data) # ValueLabels(raw_data)
    /\ rows # <<>>
    /\ columns = <<"periodo", "total">>

\* the second call of analyze_visualization of viz_parser.py has returned
CalledTwice == Len(vp_results) = 2

\* a result without the time the call took
Untimed(config) == [k \in DOMAIN config \ {"elapsedMs"} |-> config[k]]

\* C14 (as the specification states it): two calls with identical
\* (raw_data, question) return identical results in every field.
C14_Deterministic == CalledTwice => vp_results[1] = vp_results[2]

\* C14, the part that holds: the two results agree in every field but
\* elapsedMs, and a result that is not visualizable carries no time at all.
DeterministicButElapsed ==
    CalledTwice =>
        /\ Untimed(vp_results[1]) = Untimed(vp_results[2])
        /\ ~vp_results[1].visualizable => vp_results[1] = vp_results[2]

\* C14: the same arguments, two configurations that differ in elapsedMs
ElapsedDiffers ==
    /\ CalledTwice
    /\ vp_results[1].visualizable /\ vp_results[2].visualizable
    /\ vp_results[1].elapsedMs # vp_results[2].elapsedMs

\* the call of frame fr run from its entry to its end with no other call
\* around
RECURSIVE Alone(_)
Alone(fr) == IF Over(fr) THEN fr ELSE Alone(Block(fr))

\* the frame a call ends in when it is the only one
Solo(fr) == Alone(NewFrame(fr.fn, fr.arg, fr.question))

MaxShown == IF ViaFallback THEN FbMaxDisplay ELSE MaxDisplayFor(result.type)

\* the smaller of two numbers
Min(a, b) == IF a < b THEN a ELSE b

\* C21 (as the specification states it): in every visualizable result
\* totalRecords is the number of rows extracted, data.rows holds
\* min(totalRecords, max_display) rows, and isTop10 is true exactly when
\* rows were cut.
C21_TopFlag ==
    Viz => /\ result.totalRecords = Len(Extracted)
           /\ Len(Shown) = Min(result.totalRecords, MaxShown)
           /\ result.isTop10 = (result.totalRecords > Len(Shown))

\* C21, the part that holds: the count and the cap on every path, the flag
\* on the primary path.
TopFlagPrimary ==
    Viz => /\ result.totalRecords = Len(Extracted)
           /\ Len(Shown) = Min(result.totalRecords, MaxShown)
           /\ ~ViaFallback => result.isTop10 = (result.totalRecords > Len(Shown))

\* C21: the fallback pass shows every row it extracted and still sets isTop10
FlagWithoutTruncation ==
    /\ Viz /\ ViaFallback
    /\ result.isTop10
    /\ Len(Shown) = result.totalRecords

\* the rows one strategy yields from the text when it runs by itself
RowsBy(s, text) ==
    CASE s = "bullet" -> Appended(Parsed(BulletMatches(text), "bullet"), 0, "strip")
      [] s = "temporal" -> Appended(Parsed(TemporalMatches(text), "plain"), 0, "strip")
      [] s = "simple" -> Appended(Parsed(SimpleMatches(text), "plain"), SmallValue, "simple")
      [] s = "fb_grouped" ->
             Appended(Parsed(IF Len(FbMonths(text)) = Len(FbValues(text))
                             THEN Zip(FbMonths(text), FbValues(text)) ELSE <<>>,
                             "fb_month"), 0, "raw")
      [] s = "fb_bullet" -> Appended(Parsed(BulletMatches(text), "fb_bullet"), SmallValue, "strip")
      [] s = "fb_simple" -> Appended(Parsed(FbSimpleMatches(text), "fb_simple"), SmallValue, "strip")

\* the column pair the specification gives the rows of a strategy
ColumnsOf(s) ==
    CASE s \in {"bullet", "fb_bullet"} -> <<"categoria", "valor">>
      [] s \in {"temporal", "fb_grouped"} -> <<"periodo", "total">>
      [] s \in {"simple", "fb_simple"} -> <<"nombre", "valor">>

\* the strategies of the pass that constructed the result
StrategiesOfPass ==
    IF ViaFallback THEN {"fb_grouped", "fb_bullet", "fb_simple"}
    ELSE {"bullet", "temporal", "simple"}

\* row r is one of the rows strategy s yields from the text
YieldedBy(s, r) == \E j \in 1..Len(RowsBy(s, raw_data)) : RowsBy(s, raw_data)[j] = r

\* C22 (as the specification states it): in every visualizable result all
\* displayed rows come from one single strategy, and data.columns, xAxis and
\* yAxis are the column pair of that strategy.
C22_SingleStrategy ==
    Viz => \E s \in StrategiesOfPass :
               /\ result.data.columns = ColumnsOf(s)
               /\ result.xAxis = ColumnsOf(s)[1]
               /\ result.yAxis = ColumnsOf(s)[2]
               /\ \A i \in 1..Len(Shown) : YieldedBy(s, Shown[i])

\* C22, the part that holds: the axes name the two columns, the columns are
\* one of the three pairs, and every displayed row comes from a strategy of
\* the pass that constructed the result.
ColumnsWellFormed ==
    Viz => /\ result.xAxis = result.data.columns[1]
           /\ result.yAxis = result.data.columns[2]
           /\ \E s \in StrategiesOfPass : result.data.columns = ColumnsOf(s)
           /\ \A i \in 1..Len(Shown) : \E s \in StrategiesOfPass : YieldedBy(s, Shown[i])

\* C22: one bullet row and one simple-line row side by side in a result
\* whose columns are those of the bullet strategy
MixedRows ==
    /\ Viz /\ ~ViaFallback
    /\ result.data.columns = <<"categoria", "valor">>
    /\ \E i \in 1..Len(Shown) : YieldedBy("bullet", Shown[i])
    /\ \E i \in 1..Len(Shown) : YieldedBy("simple", Shown[i]) /\ ~YieldedBy("bullet", Shown[i])

\* C22: two simple-line rows from the fallback pass under the columns of the
\* grouped-temporal strategy
FallbackSimpleAsPeriod ==
    /\ Viz /\ ViaFallback
    /\ result.data.columns = <<"periodo", "total">>
    /\ \A i \in 1..Len(Shown) : YieldedBy("fb_simple", Shown[i])

----------------------------------------------------------------------------
(* The wire format of query_database, continued.                           *)

\* str(e) of the exception the except clause of query_database handles
ErrorMessage ==
    IF agent.raises THEN agent.message
    ELSE IF exc # "none" THEN Codes(exc)
    ELSE FormatError(SanitizeLines(agent.output))

\* C23 (as the specification states it): on the success path and on the
\* error path the object that is serialized is what the sanitizing walk
\* returns for the object constructed, and the returned string is that object's
\* serialization between the delimiters.
C23_SanitizedLast ==
    [][/\ (qpc = "analyze" /\ qpc' = "return") =>
              /\ response' = sanitize_dict_for_json(
                                 Response(result, TextStr(raw_data), question, agent.steps))
              /\ wire' = Wrapped(Dumps(response', <<CH.COMMA>>, <<CH.COLON>>))
       /\ qpc = "except" =>
              /\ response' = sanitize_dict_for_json(error_response(ErrorMessage))
              /\ wire' = Wrapped(Dumps(response', <<CH.COMMA, CH.SPACE>>, <<CH.COLON, CH.SPACE>>))
      ]_vars

\* C23, the part that holds: the success path serializes the sanitized object
SanitizedLastOnSuccess ==
    [][(qpc = "analyze" /\ qpc' = "return") =>
           /\ response' = sanitize_dict_for_json(
                              Response(result, TextStr(raw_data), question, agent.steps))
           /\ wire' = Wrapped(Dumps(response', <<CH.COMMA>>, <<CH.COLON>>))]_vars

\* C23: an error object was returned whose text still holds a control
\* character of the error message
UnsanitizedError ==
    /\ Answered /\ agent.raises
    /\ \E i \in 1..Len(Get(response, LIT.text).x) : IsControl(Get(response, LIT.text).x[i])

\* how often the string needle occurs in hay
Occurrences(hay, needle) ==
    Cardinality({i \in 1..(Len(hay) - Len(needle) + 1) :
                    SubSeq(hay, i, i + Len(needle) - 1) = needle})

\* a text the caller or the agent supplies holds one of the delimiters
DelimiterSupplied ==
    \E d \in {LIT.start, LIT.end} :
        \/ Contains(question, d)
        \/ Contains(agent.message, d)
        \/ Contains(TextStr(agent.output), d)

\* C25 (as the specification states it): the returned string holds each
\* delimiter exactly once, the start delimiter as its first line and the end
\* delimiter as its last line, whatever the answer text or the error message.
C25_DelimitersOnce ==
    Answered =>
        /\ Framed(wire)
        /\ Occurrences(wire, LIT.start) = 1
        /\ Occurrences(wire, LIT.end) = 1

\* C25, the part that holds: the first line is the start delimiter and the
\* last line the end delimiter, and each occurs once provided that no
\* delimiter is supplied in the question, the answer or the error message.
DelimitersOnceUnlessSupplied ==
    Answered =>
        /\ Framed(wire)
        /\ ~DelimiterSupplied =>
               Occurrences(wire, LIT.start) = 1 /\ Occurrences(wire, LIT.end) = 1

\* C25: the answer text holds the end delimiter and the returned string
\* holds it inside the JSON content as well as on its last line
DelimiterInContent ==
    /\ Answered /\ ~agent.raises
    /\ Contains(TextStr(agent.output), LIT.end)
    /\ Contains(Body(wire), LIT.end)

----------------------------------------------------------------------------
(* Labels of the simple-line strategies.                                   *)

\* the label carries no whitespace at either end and is at most 50 long
BoundedLabel(l) == l = Strip(l) /\ Len(l) <= MaxLabelLen

\* the rows a step added at the end of a list
Added(before, after) == SubSeq(after, Len(before) + 1, Len(after))

\* C24 (as the specification states it): every row label the simple-line
\* strategy adds, in the primary chain and in the fallback pass, is trimmed
\* and at most 50 characters long.
C24_BoundedLabels ==
    [][/\ pc = "simple" =>
              \A i \in 1..Len(Added(rows, rows')) : BoundedLabel(Added(rows, rows')[i][1])
       /\ pc = "fb_simple" =>
              \A i \in 1..Len(Added(fb_rows, fb_rows')) :
                  BoundedLabel(Added(fb_rows, fb_rows')[i][1])]_vars

\* C24, the part that holds: the primary strategy keeps at most 50
\* characters, the fallback strategy trims.
LabelsCutOrTrimmed ==
    [][/\ pc = "simple" =>
              \A i \in 1..Len(Added(rows, rows')) : Len(Added(rows, rows')[i][1]) <= MaxLabelLen
       /\ pc = "fb_simple" =>
              \A i \in 1..Len(Added(fb_rows, fb_rows')) :
                  Added(fb_rows, fb_rows')[i][1] = Strip(Added(fb_rows, fb_rows')[i][1])]_vars

\* C24: a label of the fallback pass longer than 50 characters
LongFallbackLabel ==
    /\ Viz /\ ViaFallback
    /\ \E i \in 1..Len(Shown) : Len(Shown[i][1]) > MaxLabelLen

\* C24: a label of the primary chain cut to 50 characters that ends in a space
CutEndsInSpace ==
    /\ Viz /\ ~ViaFallback
    /\ \E i \in 1..Len(Shown) :
           Len(Shown[i][1]) = MaxLabelLen /\ Shown[i][1][MaxLabelLen] = CH.SPACE

----------------------------------------------------------------------------
(* The sanitizer applied to its own result.                                *)

\* C29 (as claimed): a second pass of sanitize_text_for_json changes nothing.
C29_Idempotent ==
    fpc = "text_return" => sanitize_text_for_json(out_text) = out_text

\* C29, the part that holds: a second pass changes nothing when the text
\* holds no control character other than NUL, which the first pass removes
\* before it rewrites anything.
IdempotentWithoutControls ==
    (fpc = "text_return" /\ \A i \in 1..Len(in_text) : in_text[i] = 0 \/ ~IsControl(in_text[i]))
        => sanitize_text_for_json(out_text) = out_text

\* C29: a backslash and an n parted by a control character: the first pass
\* leaves the two characters side by side, the second makes a line break of them
SecondPassConverts ==
    /\ fpc = "text_return"
    /\ in_text = <<92, 7, 110>>
    /\ out_text = <<92, 110>>
    /\ sanitize_text_for_json(out_text) = <<CH.NL>>

----------------------------------------------------------------------------
(* The record count of the conclusion.                                     *)

\* query_database returned a response with visualizable = true
VisualizableResponse ==
    qpc = "return" /\ Get(response, LIT.visualizable) = JBool(TRUE)

\* C30 (as claimed): the conclusion of a visualizable response states
\* totalRecords, the number of rows before the cut to max_display.
C30_ConclusionCount ==
    VisualizableResponse =>
        /\ Get(response, LIT.totalRecords) = JNum(PyInt(result.totalRecords))
        /\ Get(response, LIT.conclusion) = JStr(MessageFor(result.totalRecords))

\* C30, the part that holds: the conclusion states the number of rows of
\* data.rows, which is totalRecords when no row was cut.
ConclusionCountsShown ==
    VisualizableResponse =>
        /\ Get(response, LIT.totalRecords) = JNum(PyInt(result.totalRecords))
        /\ Get(response, LIT.conclusion) = JStr(MessageFor(Len(result.data.rows)))
        /\ ~result.isTop10 => Len(result.data.rows) = result.totalRecords

\* C30: one bullet line more than max_display: the conclusion counts the rows
\* shown, totalRecords the rows found
ConclusionAfterCut ==
    /\ VisualizableResponse
    /\ result.totalRecords = MaxDisplay + 1
    /\ Get(response, LIT.conclusion) = JStr(MessageFor(MaxDisplay))

----------------------------------------------------------------------------
(* The caches of the Hugging Face tools.                                   *)

\* a Hugging Face tool was called
ToolCalled == last_call.tool # "none"

\* the tool answered from its cache
ServedFromCache == ToolCalled /\ last_call.hit

\* two times of the same 300-second bucket
SameBucket(t1, t2) == t1 \div CACHE_TTL_SECONDS = t2 \div CACHE_TTL_SECONDS

\* C26: a result served from the cache was fetched upstream in the time
\* bucket of the call, so it is less than CACHE_TTL_SECONDS old; every call
\* has an upstream request with its parameters in its own time bucket; and no
\* cache holds more than its maxsize entries (128 for searches, 64 for
\* details).
C26_StalenessBound ==
    /\ ServedFromCache =>
           /\ SameBucket(last_call.result.fetched_at, last_call.at)
           /\ last_call.at - last_call.result.fetched_at < CACHE_TTL_SECONDS
    /\ ToolCalled =>
           LET sent == requests[CachedFn(last_call.tool)]
           IN  \E i \in 1..Len(sent) :
                   /\ ParamsOf(sent[i].key) = ParamsOf(last_call.key)
                   /\ SameBucket(sent[i].at, last_call.at)
    /\ \A tool \in SearchTools : Len(cache[CachedFn(tool)]) <= CACHE_MAX_SIZE
    /\ \A tool \in DetailTools : Len(cache[CachedFn(tool)]) <= InfoCacheSize

\* C26: a result served from the cache one second before it is
\* CACHE_TTL_SECONDS old
ServedAtTheEdge ==
    /\ ServedFromCache
    /\ last_call.at - last_call.result.fetched_at = CACHE_TTL_SECONDS - 1

\* C27 (as claimed): a stored failure is never returned: a call answered
\* from the cache returns a result with success = True.
C27_FailuresRefetched ==
    ServedFromCache => last_call.result.success

\* C27, the part that holds: a failure is returned from the cache only in
\* the time bucket of the request that failed.
FailureKeptOneBucket ==
    (ServedFromCache /\ ~last_call.result.success) =>
        SameBucket(last_call.result.fetched_at, last_call.at)

\* C27: the request of a call failed and a later call with the same
\* parameters was answered with the stored failure, without a new request
StoredFailureServed ==
    /\ ServedFromCache
    /\ ~last_call.result.success
    /\ last_call.result.fetched_at < last_call.at
    /\ Len(requests[CachedFn(last_call.tool)]) = 1

----------------------------------------------------------------------------
(* The lazily created module-level objects.                                *)

\* the calls of the getter of a name that returned
ReturnedBy(name) ==
    {t \in DOMAIN getters : getters[t].name = name /\ getters[t].pc = "done"}

\* C28 (as claimed): whatever the interleaving of the calls, at most one
\* instance is constructed for each name and every call returns it.
C28_CreatedOnce ==
    \A name \in Singletons :
        /\ constructed[name] <= 1
        /\ \A t \in ReturnedBy(name) : getters[t].ret = 1

\* C28, the part that holds: every call returns an instance, never None, and
\* a call that starts after the name was bound constructs nothing.
GetterReturnsInstance ==
    /\ \A name \in Singletons :
           \A t \in ReturnedBy(name) : getters[t].ret \in 1..constructed[name]
    /\ [][\A t \in DOMAIN getters :
              (getters[t].pc = "test" /\ singleton[getters[t].name] # 0)
                  => getters'[t].pc # "construct"]_vars

\* C28: two calls of get_hf_client ran at the same time, each constructed a
\* client and each returned its own
TwoClients ==
    /\ constructed["_hf_client"] = 2
    /\ \E t1, t2 \in ReturnedBy("_hf_client") : getters[t1].ret # getters[t2].ret

\* C28: the same for get_sql_agent
TwoAgents ==
    /\ constructed["_sql_agent"] = 2
    /\ \E t1, t2 \in ReturnedBy("_sql_agent") : getters[t1].ret # getters[t2].ret

====
